---- MODULE Spec2Model ----
(***************************************************************************)
(* CSV ingestion and reconciliation pipeline of supabase_uploader.py:      *)
(* locale parsers, hashing, settings cache, sales and customer upload,     *)
(* upload-history logging, against a table-oriented backend.               *)
(*                                                                         *)
(* Python strings are sequences of one-character strings.  None is a       *)
(* value distinct from every string.  Floats holding currency are exact    *)
(* integers in units of 1/SCALE (the model's inputs have at most two       *)
(* decimals).  A helper that may raise returns Ok(v) or Raise.             *)
(***************************************************************************)
EXTENDS Integers, Sequences, FiniteSets, TLC

\* ---------------------------------------------------------------- values
None == <<"None">>
\* the outcome of a computation that may raise
Ok(v) == [raised |-> FALSE, val |-> v]
Raise == [raised |-> TRUE, val |-> 0]
SCALE == 100

Digits == {"0", "1", "2", "3", "4", "5", "6", "7", "8", "9"}
DigitVal == [c \in Digits |->
               CASE c = "0" -> 0 [] c = "1" -> 1 [] c = "2" -> 2 [] c = "3" -> 3
                 [] c = "4" -> 4 [] c = "5" -> 5 [] c = "6" -> 6 [] c = "7" -> 7
                 [] c = "8" -> 8 [] c = "9" -> 9]
DigitChar == <<"0", "1", "2", "3", "4", "5", "6", "7", "8", "9">>

\* the line break
NL == "\n"

\* ------------------------------------------------------- string builtins
\* str.find: index of the first occurrence of character c, 0 when absent
IndexOf(s, c) ==
    IF \E i \in 1..Len(s) : s[i] = c
    THEN CHOOSE i \in 1..Len(s) : s[i] = c /\ \A j \in 1..(i - 1) : s[j] # c
    ELSE 0

\* str.split(sep): every occurrence of sep cuts, empty pieces are kept
RECURSIVE Split(_, _)
Split(s, sep) ==
    LET i == IndexOf(s, sep)
    IN IF i = 0 THEN <<s>>
       ELSE <<SubSeq(s, 1, i - 1)>> \o Split(SubSeq(s, i + 1, Len(s)), sep)

\* str.split(sep, 1): at most one cut
Split1(s, sep) ==
    LET i == IndexOf(s, sep)
    IN IF i = 0 THEN <<s>>
       ELSE <<SubSeq(s, 1, i - 1), SubSeq(s, i + 1, Len(s))>>

\* str.strip() over the model's only whitespace character
RECURSIVE LStrip(_)
LStrip(s) == IF s # <<>> /\ Head(s) = " " THEN LStrip(Tail(s)) ELSE s
RECURSIVE RStrip(_)
RStrip(s) ==
    IF s # <<>> /\ s[Len(s)] = " " THEN RStrip(SubSeq(s, 1, Len(s) - 1)) ELSE s
Strip(s) == RStrip(LStrip(s))

\* str.zfill(n)
RECURSIVE zfill(_, _)
zfill(s, n) == IF Len(s) >= n THEN s ELSE zfill(<<"0">> \o s, n)

\* s.replace(c, '') and s.replace(c, d)
RemoveChar(s, c) == SelectSeq(s, LAMBDA x : x # c)
ReplaceChar(s, c, d) == [i \in 1..Len(s) |-> IF s[i] = c THEN d ELSE s[i]]

\* substring test and str.lower() over the model's alphabet: the only
\* upper-case letters the inputs use are "R" and "S"
Contains(s, w) ==
    \E i \in 1..(Len(s) - Len(w) + 1) : SubSeq(s, i, i + Len(w) - 1) = w
UpperCase == <<"A", "B", "C", "D", "E", "F", "G", "H", "I", "J", "K", "L", "M", "N",
              "O", "P", "Q", "R", "S", "T", "U", "V", "W", "X", "Y", "Z">>
LowerCase == <<"a", "b", "c", "d", "e", "f", "g", "h", "i", "j", "k", "l", "m", "n",
              "o", "p", "q", "r", "s", "t", "u", "v", "w", "x", "y", "z">>
LowerChar(c) ==
    IF \E k \in 1..Len(UpperCase) : UpperCase[k] = c
    THEN LowerCase[CHOOSE k \in 1..Len(UpperCase) : UpperCase[k] = c]
    ELSE c
Lower(s) == [i \in 1..Len(s) |-> LowerChar(s[i])]

AllDigits(s) == \A i \in 1..Len(s) : s[i] \in Digits

\* int() of a digit string, and str() of a natural number
RECURSIVE ParseNat(_)
ParseNat(s) ==
    IF s = <<>> THEN 0
    ELSE 10 * ParseNat(SubSeq(s, 1, Len(s) - 1)) + DigitVal[s[Len(s)]]
RECURSIVE NatStr(_)
NatStr(n) ==
    IF n < 10 THEN <<DigitChar[n + 1]>>
    ELSE NatStr(n \div 10) \o <<DigitChar[(n % 10) + 1]>>

\* ------------------------------------------------ Brazilian format parsers
\* parse_br_date: "DD/MM/YYYY[ HH:MM:SS]" to "YYYY-MM-DDTHH:MM:SS", None when
\* blank or when the date part has not three "/"-separated pieces
parse_br_date(date_str) ==
    IF date_str = None \/ date_str = <<>> \/ Strip(date_str) = <<>> THEN None
    ELSE LET s == Strip(date_str)
             parts == Split1(s, " ")
             date_part == parts[1]
             time_part == IF Len(parts) > 1 THEN parts[2]
                          ELSE <<"0", "0", ":", "0", "0", ":", "0", "0">>
             date_parts == Split(date_part, "/")
         IN IF Len(date_parts) # 3 THEN None
            ELSE LET day == date_parts[1]
                     month == date_parts[2]
                     year == IF Len(date_parts[3]) = 2
                             THEN <<"2", "0">> \o date_parts[3]
                             ELSE date_parts[3]
                 IN year \o <<"-">> \o zfill(month, 2) \o <<"-">>
                         \o zfill(day, 2) \o <<"T">> \o time_part

parse_br_date_only(date_str) ==
    LET iso == parse_br_date(date_str)
    IN IF iso # None THEN Split(iso, "T")[1] ELSE None

\* float(s): an optional sign, digits, an optional "." and digits; Raise
\* (ValueError) for anything else.  Exact for at most two decimals.
ParseFloat(s) ==
    LET neg == s # <<>> /\ Head(s) = "-"
        body == IF neg THEN Tail(s) ELSE s
        parts == Split(body, ".")
        ip == parts[1]
        fp == IF Len(parts) = 2 THEN parts[2] ELSE <<>>
        fp2 == SubSeq(fp \o <<"0", "0">>, 1, 2)
        mag == ParseNat(ip) * SCALE + ParseNat(fp2)
    IN IF Len(parts) > 2 \/ ~AllDigits(ip) \/ ~AllDigits(fp)
          \/ (ip = <<>> /\ fp = <<>>)
       THEN Raise
       ELSE IF neg THEN Ok(0 - mag) ELSE Ok(mag)

\* parse_br_number: "1.234,56" -> 1234.56, "1,5" -> 1.5, blank -> 0.0
parse_br_number(value) ==
    IF value = None \/ value = <<>> THEN Ok(0)
    ELSE LET s == Strip(value)
         IN IF s = <<>> THEN Ok(0)
            ELSE IF IndexOf(s, ".") # 0 /\ IndexOf(s, ",") # 0
                 THEN ParseFloat(ReplaceChar(RemoveChar(s, "."), ",", "."))
            ELSE IF IndexOf(s, ",") # 0
                 THEN ParseFloat(ReplaceChar(s, ",", "."))
            ELSE ParseFloat(s)

\* variant: the first 11 digits are kept
normalize_cpf_first(doc) ==
    IF doc = None \/ doc = <<>> THEN <<>>
    ELSE LET digits == SelectSeq(doc, LAMBDA c : c \in Digits)
         IN IF digits = <<>> THEN <<>>
            ELSE IF Len(digits) < 11 THEN zfill(digits, 11)
            ELSE SubSeq(digits, 1, 11)

\* normalize_cpf: digits only, left-padded with zeros to 11, last 11 kept
normalize_cpf(doc) ==
    IF doc = None \/ doc = <<>> THEN <<>>
    ELSE LET digits == SelectSeq(doc, LAMBDA c : c \in Digits)
         IN IF digits = <<>> THEN <<>>
            ELSE IF Len(digits) < 11 THEN zfill(digits, 11)
            ELSE IF Len(digits) > 11
                 THEN SubSeq(digits, Len(digits) - 10, Len(digits))
            ELSE digits

\* ----------------------------------------------------- transaction helpers
RECARGA == <<"r", "e", "c", "a", "r", "g", "a">>
LAVADORA == <<"l", "a", "v", "a", "d", "o", "r", "a">>
SECADORA == <<"s", "e", "c", "a", "d", "o", "r", "a">>
SALDO == <<"s", "a", "l", "d", "o", " ", "d", "a", " ",
           "c", "a", "r", "t", "e", "i", "r", "a">>

\* count_machines: pieces of the comma-split string naming a washer / a dryer
count_machines(machine_str) ==
    IF machine_str = <<>> THEN [wash |-> 0, dry |-> 0, total |-> 0]
    ELSE LET machines == Split(Lower(machine_str), ",")
             wash == Cardinality({i \in 1..Len(machines) :
                                     Contains(machines[i], LAVADORA)})
             dry == Cardinality({i \in 1..Len(machines) :
                                    Contains(machines[i], SECADORA)})
         IN [wash |-> wash, dry |-> dry, total |-> wash + dry]

\* variant: the wallet payment is tested before the recharge
classify_transaction_wallet_first(row) ==
    LET machine_str == Lower(row.Maquinas)
        payment_method == Lower(row.Meio_de_Pagamento)
        parsed == parse_br_number(row.Valor_Venda)
        gross_value == parsed.val
    IN IF parsed.raised THEN "Raise"
       ELSE IF Contains(payment_method, SALDO) THEN "TYPE_2"
       ELSE IF Contains(machine_str, RECARGA) THEN "TYPE_3"
       ELSE IF gross_value = 0 /\ machine_str # <<>> THEN "TYPE_2"
       ELSE IF machine_str # <<>> /\ gross_value > 0 THEN "TYPE_1"
       ELSE "UNKNOWN"

\* classify_transaction: first matching rule wins; "Raise" when Valor_Venda
\* does not parse
classify_transaction(row) ==
    LET machine_str == Lower(row.Maquinas)
        payment_method == Lower(row.Meio_de_Pagamento)
        parsed == parse_br_number(row.Valor_Venda)
        gross_value == parsed.val
    IN IF parsed.raised THEN "Raise"
       ELSE IF Contains(machine_str, RECARGA) THEN "TYPE_3"
       ELSE IF Contains(payment_method, SALDO) THEN "TYPE_2"
       ELSE IF gross_value = 0 /\ machine_str # <<>>
               /\ ~Contains(machine_str, RECARGA) THEN "TYPE_2"
       ELSE IF machine_str # <<>> /\ ~Contains(machine_str, RECARGA)
               /\ gross_value > 0 THEN "TYPE_1"
       ELSE "UNKNOWN"

\* str.count(c)
Count(s, c) == Len(SelectSeq(s, LAMBDA x : x = c))

\* detect_delimiter: the first line of the text has strictly more ";" than ","
detect_delimiter(text) ==
    LET first_line == IF text # <<>> THEN Split(text, NL)[1] ELSE <<>>
        semicolons == Count(first_line, ";")
        commas == Count(first_line, ",")
    IN IF semicolons > commas THEN ";" ELSE ","

\* U+FEFF, one character of a text
BOM == "BOM"
\* the characters \s and str.strip() take for whitespace, among the model's
IsSpace(c) == c \in {" ", NL}
RECURSIVE LStripSpace(_)
LStripSpace(s) ==
    IF s # <<>> /\ IsSpace(Head(s)) THEN LStripSpace(Tail(s)) ELSE s
RECURSIVE RStripSpace(_)
RStripSpace(s) ==
    IF s # <<>> /\ IsSpace(s[Len(s)])
    THEN RStripSpace(SubSeq(s, 1, Len(s) - 1)) ELSE s
StripSpace(s) == RStripSpace(LStripSpace(s))
RECURSIVE LStripBOM(_)
LStripBOM(s) == IF s # <<>> /\ Head(s) = BOM THEN LStripBOM(Tail(s)) ELSE s
\* s starts with w
StartsWith(s, w) == Len(s) >= Len(w) /\ SubSeq(s, 1, Len(w)) = w
RECURSIVE LStripDigits(_)
LStripDigits(s) ==
    IF s # <<>> /\ Head(s) \in Digits THEN LStripDigits(Tail(s)) ELSE s

\* re.sub(r'^IMTString\(\d+\):\s*', '', text)
IMTString == <<"I", "M", "T", "S", "t", "r", "i", "n", "g", "(">>
StripIMTString(text) ==
    IF ~StartsWith(text, IMTString) THEN text
    ELSE LET after == SubSeq(text, Len(IMTString) + 1, Len(text))
             rest == LStripDigits(after)
         IN IF Len(rest) < Len(after) /\ StartsWith(rest, <<")", ":">>)
            THEN LStripSpace(SubSeq(rest, 3, Len(rest)))
            ELSE text

\* clean_csv
clean_csv(text) == StripSpace(StripIMTString(LStripBOM(text)))

\* the text open(..., encoding='utf-8-sig').read() gives for the characters
\* of a file: one leading U+FEFF is the signature
ReadText(content) ==
    IF content # <<>> /\ Head(content) = BOM THEN Tail(content) ELSE content

\* one row of csv.DictReader: the cells under the field names (the last of
\* two equal names wins), None for a missing cell, the cells past the last
\* field name as a list under the key None.  Quotes are not modelled.
DictRow(fieldnames, cells) ==
    [key \in {fieldnames[j] : j \in 1..Len(fieldnames)}
             \cup (IF Len(cells) > Len(fieldnames) THEN {None} ELSE {}) |->
        IF key = None /\ \A j \in 1..Len(fieldnames) : fieldnames[j] # None
        THEN SubSeq(cells, Len(fieldnames) + 1, Len(cells))
        ELSE LET j == CHOOSE j \in 1..Len(fieldnames) :
                          /\ fieldnames[j] = key
                          /\ \A m \in (j + 1)..Len(fieldnames) :
                                 fieldnames[m] # key
             IN IF j <= Len(cells) THEN cells[j] ELSE None]

\* parse_csv_file on the characters of a file
parse_csv_file(content) ==
    LET text == clean_csv(ReadText(content))
        delimiter == detect_delimiter(text)
        lines == SelectSeq(Split(text, NL), LAMBDA line : StripSpace(line) # <<>>)
    IN IF lines = <<>> THEN <<>>
       ELSE [n \in 1..(Len(lines) - 1) |->
                DictRow(Split(lines[1], delimiter),
                        Split(lines[n + 1], delimiter))]

\* generate_hash: the digest of the four raw fields joined by "|".  The
\* digest is collision-free, so the joined content stands for it.
generate_hash(data_hora, doc_cliente, valor_venda, maquinas) ==
    data_hora \o <<"|">> \o doc_cliente \o <<"|">> \o valor_venda
              \o <<"|">> \o maquinas

\* int(s): an optional sign and digits, Raise (ValueError) otherwise
ParseInt(s) ==
    LET t == Strip(s)
        neg == t # <<>> /\ Head(t) = "-"
        body == IF neg THEN Tail(t) ELSE t
    IN IF body = <<>> \/ ~AllDigits(body) THEN Raise
       ELSE IF neg THEN Ok(0 - ParseNat(body)) ELSE Ok(ParseNat(body))

\* datetime.strptime(s, '%Y-%m-%d'): Ok(yyyymmdd) for a calendar date written
\* with a four-digit year, Raise (ValueError) otherwise
DaysIn(y, m) ==
    IF m \in {4, 6, 9, 11} THEN 30
    ELSE IF m # 2 THEN 31
    ELSE IF (y % 4 = 0 /\ y % 100 # 0) \/ y % 400 = 0 THEN 29 ELSE 28
strptime(s) ==
    LET p == Split(s, "-")
    IN IF s = None \/ Len(p) # 3 THEN Raise
       ELSE IF Len(p[1]) # 4 \/ Len(p[2]) \notin {1, 2} \/ Len(p[3]) \notin {1, 2}
               \/ ~AllDigits(p[1]) \/ ~AllDigits(p[2]) \/ ~AllDigits(p[3])
            THEN Raise
       ELSE LET y == ParseNat(p[1])
                m == ParseNat(p[2])
                d == ParseNat(p[3])
            IN IF m \in 1..12 /\ d >= 1 /\ d <= DaysIn(y, m) /\ y >= 1
               THEN Ok(y * 10000 + m * 100 + d) ELSE Raise

\* round(n / d) for n >= 0, d > 0: to nearest, ties to even.  (On a tie the
\* binary float decides in Python; the amounts of the model have no tie.)
RoundDiv(n, d) ==
    LET q == n \div d
        r == n % d
    IN IF 2 * r > d \/ (2 * r = d /\ q % 2 = 1) THEN q + 1 ELSE q

\* ------------------------------------------------------------ configuration
BATCH_SIZE == 100
DEFAULT_CASHBACK_PERCENT == 750
DEFAULT_CASHBACK_START_DATE == <<"2", "0", "2", "4", "-", "0", "6", "-", "0", "1">>
APP_SETTINGS_CACHE_TTL == 300

\* ------------------------------------------------------------ model bounds
BulkRows == 201
MaxCalls == 2
MaxBulkCalls == 1
TickStep == 150
MaxSettingsCalls == 4
MaxHashCalls == 2
MaxClassifyCalls == 1
MaxRetryCalls == 2
MaxTextLen == 4
MaxBodyLen == 3
MaxLogCalls == 1
MaxErrors == 12
MaxDigits == 13

\* ------------------------------------------------------------------ inputs
SalesRow(dh, doc, vv, vp, maq, mp) ==
    [Data_Hora |-> dh, Doc_Cliente |-> doc, Valor_Venda |-> vv,
     Valor_Pago |-> vp, Maquinas |-> maq, Meio_de_Pagamento |-> mp]

RowMay == SalesRow(<<"3", "1", "/", "0", "5", "/", "2", "0", "2", "4">>, <<"1", "2", "3", ".", "4", "5", "6", ".", "7", "8", "9", "-", "0", "1">>, <<"1", "0", ",", "0", "0">>, <<"1", "0", ",", "0", "0">>, <<"l", "a", "v", "a", "d", "o", "r", "a">>, <<>>)
RowMayFmt == SalesRow(<<"3", "1", "/", "0", "5", "/", "2", "0", "2", "4">>, <<"1", "2", "3", "4", "5", "6", "7", "8", "9", "0", "1">>, <<"1", "0", ",", "0", "0">>, <<"1", "0", ",", "0", "0">>, <<"l", "a", "v", "a", "d", "o", "r", "a">>, <<>>)
RowJun == SalesRow(<<"0", "1", "/", "0", "6", "/", "2", "0", "2", "4", " ", "0", "9", ":", "3", "0", ":", "0", "0">>, <<"5">>, <<"1", "0", ",", "0", "0">>, <<"0", ",", "5", "0">>, <<"l", "a", "v", "a", "d", "o", "r", "a", ",", "s", "e", "c", "a", "d", "o", "r", "a">>, <<>>)
\* two rows that differ in Doc_Cliente, Valor_Venda and Maquinas by where the
\* "|" stands
RowPipeA == SalesRow(<<"3", "1", "/", "0", "5", "/", "2", "0", "2", "4">>, <<"5">>, <<>>, <<"0">>, <<"0", "|", "l", "a", "v", "a", "d", "o", "r", "a">>, <<>>)
RowPipeB == SalesRow(<<"3", "1", "/", "0", "5", "/", "2", "0", "2", "4">>, <<"5", "|">>, <<"0">>, <<"0">>, <<"l", "a", "v", "a", "d", "o", "r", "a">>, <<>>)
RowBlankDate == SalesRow(<<>>, <<"5">>, <<"1", "0", ",", "0", "0">>, <<"1", "0", ",", "0", "0">>, <<"l", "a", "v", "a", "d", "o", "r", "a">>, <<>>)
RowNoDoc == SalesRow(<<"0", "1", "/", "0", "6", "/", "2", "0", "2", "4">>, <<"-">>, <<"1", "0", ",", "0", "0">>, <<"1", "0", ",", "0", "0">>, <<"l", "a", "v", "a", "d", "o", "r", "a">>, <<>>)
RowBadNumber == SalesRow(<<"0", "1", "/", "0", "6", "/", "2", "0", "2", "4">>, <<"7">>, <<"a", "b", "c">>, <<"1">>, <<"l", "a", "v", "a", "d", "o", "r", "a">>, <<>>)
RowBadDate == SalesRow(<<"3", "1", "/", "0", "2", "/", "2", "0", "2", "4">>, <<"7">>, <<"3">>, <<"3">>, <<"s", "e", "c", "a", "d", "o", "r", "a">>, <<>>)
RowRecarga == SalesRow(<<"0", "2", "/", "0", "6", "/", "2", "4">>, <<"7">>, <<"5", "0", ",", "0", "0">>, <<"5", "0", ",", "0", "0">>, <<"R", "e", "c", "a", "r", "g", "a">>, <<>>)
RowWallet == SalesRow(<<"0", "2", "/", "0", "6", "/", "2", "4">>, <<"7">>, <<"0">>, <<"0">>, <<>>, <<"S", "a", "l", "d", "o", " ", "d", "a", " ", "c", "a", "r", "t", "e", "i", "r", "a">>)
BulkSalesRow(n) == SalesRow(<<"1", "/", "6", "/", "2", "4">>, NatStr(n), <<"2">>, <<"2">>, <<>>, <<>>)

\* the files a caller may pass; an unreadable file has no content
SalesFiles == {"sales_mixed", "sales_dups", "sales_bad", "sales_empty",
               "sales_missing"}
BulkSalesFiles == {"sales_bulk"}
RetryFiles == {"sales_retry"}
SalesFileRows(f) ==
    CASE f = "sales_mixed" -> <<RowMay, RowBlankDate, RowJun>>
      [] f = "sales_dups" -> <<RowMay, RowMayFmt, RowMay, RowNoDoc>>
      [] f = "sales_bad" -> <<RowBadNumber, RowRecarga, RowBadDate, RowWallet>>
      [] f = "sales_empty" -> <<>>
      [] f = "sales_raw" -> <<RowMay, RowMayFmt, RowPipeA, RowPipeB>>
      [] f = "sales_bulk" -> [n \in 1..BulkRows |-> BulkSalesRow(n)]
      [] f = "sales_retry" -> [n \in 1..BulkRows |-> BulkSalesRow(n)]
Readable(f) == f \notin {"sales_missing", "customers_missing"}

\* the app_settings row with id 'default', when the backend has one
SettingsRows ==
    {[cashback_percent |-> 1000, cashback_start_date |-> <<"2", "0", "2", "4", "-", "0", "1", "-", "0", "1">>],
     [cashback_percent |-> 750, cashback_start_date |-> None]}

\* ------------------------------------------------------------------ client
\* get_supabase_client: the singleton when it exists; otherwise a client is
\* created when the credentials are set and create_client does not raise.
\* Returns the new singleton (TRUE: a client, FALSE: None).
get_supabase_client(singleton, configured, create_ok) ==
    IF singleton THEN TRUE
    ELSE IF ~configured THEN FALSE
    ELSE create_ok

\* ---------------------------------------------------------------- settings
Defaults == [cashback_percent |-> DEFAULT_CASHBACK_PERCENT,
             cashback_start_date |-> DEFAULT_CASHBACK_START_DATE]

\* variant: a cached value is still served at the age of the TTL
get_app_settings_stale(cache, cache_time, t, client, read, row) ==
    IF cache # <<>> /\ (t - cache_time) <= APP_SETTINGS_CACHE_TTL
    THEN [ret |-> cache[1], cache |-> cache, cache_time |-> cache_time,
          fetched |-> FALSE, read |-> "none"]
    ELSE IF ~client
    THEN [ret |-> Defaults, cache |-> cache, cache_time |-> cache_time,
          fetched |-> FALSE, read |-> "none"]
    ELSE IF read = "row" /\ row # <<>>
    THEN [ret |-> row[1], cache |-> row, cache_time |-> t, fetched |-> TRUE,
          read |-> "ok"]
    ELSE [ret |-> Defaults, cache |-> cache, cache_time |-> cache_time,
          fetched |-> TRUE,
          read |-> IF read = "exception" THEN "exception" ELSE "no_row"]

\* variant: the defaults returned after a failed read are cached
get_app_settings_caching(cache, cache_time, t, client, read, row) ==
    IF cache # <<>> /\ (t - cache_time) < APP_SETTINGS_CACHE_TTL
    THEN [ret |-> cache[1], cache |-> cache, cache_time |-> cache_time,
          fetched |-> FALSE, read |-> "none"]
    ELSE IF ~client
    THEN [ret |-> Defaults, cache |-> <<Defaults>>, cache_time |-> t,
          fetched |-> FALSE, read |-> "none"]
    ELSE IF read = "row" /\ row # <<>>
    THEN [ret |-> row[1], cache |-> row, cache_time |-> t, fetched |-> TRUE,
          read |-> "ok"]
    ELSE [ret |-> Defaults, cache |-> <<Defaults>>, cache_time |-> t,
          fetched |-> TRUE,
          read |-> IF read = "exception" THEN "exception" ELSE "no_row"]

\* get_app_settings.  The cache slot and the backend row are <<>> (None, no
\* row) or <<s>>.  read is the outcome of the backend select: "row" (the row
\* is returned), "no_row" (empty data) or "exception".
\* Returns the value, the new cache slot and whether the backend was read.
get_app_settings(cache, cache_time, t, client, read, row) ==
    IF cache # <<>> /\ (t - cache_time) < APP_SETTINGS_CACHE_TTL
    THEN [ret |-> cache[1], cache |-> cache, cache_time |-> cache_time,
          fetched |-> FALSE, read |-> "none"]
    ELSE IF ~client
    THEN [ret |-> Defaults, cache |-> cache, cache_time |-> cache_time,
          fetched |-> FALSE, read |-> "none"]
    ELSE IF read = "row" /\ row # <<>>
    THEN [ret |-> row[1], cache |-> row, cache_time |-> t, fetched |-> TRUE,
          read |-> "ok"]
    ELSE [ret |-> Defaults, cache |-> cache, cache_time |-> cache_time,
          fetched |-> TRUE,
          read |-> IF read = "exception" THEN "exception" ELSE "no_row"]

\* ------------------------------------------------------------ result object
NewResult == [success |-> FALSE, inserted |-> 0, updated |-> 0, skipped |-> 0,
              total |-> 0, errors |-> <<>>]
Err(kind, n) == [kind |-> kind, n |-> n]
\* one backend or file interaction of the running call
Io(o, k, n, outcome) == [op |-> o, k |-> k, n |-> n, outcome |-> outcome]

\* ------------------------------------------------------------- sales rows
\* The values a row gives rise to are passed as parameters, each computed at
\* one place.
InSeq(list, v) == \E j \in 1..Len(list) : list[j] = v

\* variant: no cashback on the effective date itself
CashbackAfter(gross, cashback_percent, tx_date, cashback_start) ==
    IF tx_date > cashback_start /\ gross > 0
    THEN RoundDiv(gross * cashback_percent, SCALE * 100)
    ELSE 0

\* round(gross_value * cashback_rate, 2) when the cashback applies, else 0.0
Cashback(gross, cashback_percent, tx_date, cashback_start) ==
    IF tx_date >= cashback_start /\ gross > 0
    THEN RoundDiv(gross * cashback_percent, SCALE * 100)
    ELSE 0

\* the record appended to transactions
Transaction(row, data_hora, doc_cliente, gross, paid, import_hash, machine_info, cashback_amount) ==
    [data_hora |-> data_hora,
     valor_venda |-> gross,
     valor_pago |-> paid,
     doc_cliente |-> doc_cliente,
     maquinas |-> IF row.Maquinas = <<>> THEN None ELSE row.Maquinas,
     transaction_type |-> classify_transaction(row),
     is_recarga |-> Contains(Lower(row.Maquinas), RECARGA),
     wash_count |-> machine_info.wash,
     dry_count |-> machine_info.dry,
     total_services |-> machine_info.total,
     net_value |-> paid - cashback_amount,
     cashback_amount |-> cashback_amount,
     import_hash |-> import_hash]

\* the row loop body after the hash was found new: tx_date is the parsed
\* date of the transaction (strptime may raise)
SalesRowAccept(acc, idx, row, settings, cashback_start, data_hora, doc_cliente, gross, paid, import_hash, tx_date) ==
    IF tx_date.raised
    THEN [acc EXCEPT !.seen_hashes = Append(@, import_hash),
                     !.errors = Append(@, Err("Row", idx + 1))]
    ELSE [acc EXCEPT
            !.seen_hashes = Append(@, import_hash),
            !.transactions =
                Append(@, Transaction(row, data_hora, doc_cliente, gross.val,
                                      paid.val, import_hash,
                                      count_machines(row.Maquinas),
                                      Cashback(gross.val,
                                               settings.cashback_percent,
                                               tx_date.val, cashback_start)))]

\* the row loop body given the parsed fields of the row
SalesRowBody(acc, idx, row, settings, cashback_start, data_hora, doc_cliente, gross, paid, import_hash) ==
    IF data_hora = None THEN [acc EXCEPT !.skipped = @ + 1]
    ELSE IF doc_cliente = <<>> THEN [acc EXCEPT !.skipped = @ + 1]
    ELSE IF gross.raised \/ paid.raised
    THEN [acc EXCEPT !.errors = Append(@, Err("Row", idx + 1))]
    ELSE IF InSeq(acc.seen_hashes, import_hash) THEN acc
    ELSE SalesRowAccept(acc, idx, row, settings, cashback_start, data_hora,
                        doc_cliente, gross, paid, import_hash,
                        strptime(Split(data_hora, "T")[1]))

\* one iteration of the row loop of upload_sales_csv: acc holds transactions,
\* seen_hashes (the set, listed in insertion order), skipped and errors; idx
\* is the 0-based row index
SalesRowStep(acc, idx, row, settings, cashback_start) ==
    SalesRowBody(acc, idx, row, settings, cashback_start,
                 parse_br_date(row.Data_Hora),
                 normalize_cpf(row.Doc_Cliente),
                 parse_br_number(row.Valor_Venda),
                 parse_br_number(row.Valor_Pago),
                 generate_hash(row.Data_Hora, row.Doc_Cliente,
                               row.Valor_Venda, row.Maquinas))

\* the row loop over rows lo .. hi (1-based), in file order.  The range is
\* halved, the left half first, so that the evaluation depth stays
\* logarithmic in the file size.
RECURSIVE SalesRows(_, _, _, _, _, _)
SalesRows(acc, lo, hi, rows, settings, cashback_start) ==
    IF lo > hi THEN acc
    ELSE IF lo = hi
    THEN SalesRowStep(acc, lo - 1, rows[lo], settings, cashback_start)
    ELSE LET mid == (lo + hi) \div 2
             left == SalesRows(acc, lo, mid, rows, settings, cashback_start)
         IN \* the test forces the left half to be evaluated first
            IF left.skipped >= 0
            THEN SalesRows(left, mid + 1, hi, rows, settings, cashback_start)
            ELSE left

\* variant: a file without a row is reported as an error
SalesAfterRowsEmptyError(rows, acc) ==
    IF rows = <<>>
    THEN [pc |-> "log", transactions |-> <<>>,
          result |-> [NewResult EXCEPT !.errors = <<Err("Upload", 0)>>]]
    ELSE [pc |-> "sales_batch", transactions |-> acc.transactions,
          result |-> [NewResult EXCEPT !.total = Len(rows),
                                       !.skipped = acc.skipped,
                                       !.errors = acc.errors]]

\* upload_sales_csv from the parsed file to the batch loop: acc is what the
\* row loop left
SalesAfterRows(rows, acc) ==
    IF rows = <<>>
    THEN [pc |-> "returned", transactions |-> <<>>,
          result |-> [NewResult EXCEPT !.success = TRUE]]
    ELSE [pc |-> "sales_batch", transactions |-> acc.transactions,
          result |-> [NewResult EXCEPT !.total = Len(rows),
                                       !.skipped = acc.skipped,
                                       !.errors = acc.errors]]

\* variant: no check of the client
SalesAfterSettingsUnchecked(f, client, settings, cashback_start, rows) ==
    IF cashback_start.raised \/ ~Readable(f)
    THEN [pc |-> "log", transactions |-> <<>>,
          result |-> [NewResult EXCEPT !.errors = <<Err("Upload", 0)>>]]
    ELSE SalesAfterRows(rows,
                        SalesRows([transactions |-> <<>>, seen_hashes |-> <<>>,
                                   skipped |-> 0, errors |-> <<>>],
                                  1, Len(rows), rows, settings,
                                  cashback_start.val))

SalesAfterSettings(f, client, settings, cashback_start, rows) ==
    IF ~client
    THEN [pc |-> "returned", transactions |-> <<>>,
          result |-> [NewResult EXCEPT !.errors = <<Err("Config", 0)>>]]
    ELSE IF cashback_start.raised \/ ~Readable(f)
    THEN [pc |-> "log", transactions |-> <<>>,
          result |-> [NewResult EXCEPT !.errors = <<Err("Upload", 0)>>]]
    ELSE SalesAfterRows(rows,
                        SalesRows([transactions |-> <<>>, seen_hashes |-> <<>>,
                                   skipped |-> 0, errors |-> <<>>],
                                  1, Len(rows), rows, settings,
                                  cashback_start.val))

\* upload_sales_csv up to the batch loop: client check, settings, parsing and
\* the row loop.  client: what get_supabase_client returned; settings: what
\* get_app_settings returned.  Gives the next control point, the result so
\* far and the transactions to send.
upload_sales_csv_begin(f, client, settings) ==
    SalesAfterSettings(f, client, settings,
                       strptime(settings.cashback_start_date),
                       IF Readable(f) THEN SalesFileRows(f) ELSE <<>>)

\* the backend calls upload_sales_csv_begin makes, in order
upload_sales_csv_begin_io(f, client, read, settings) ==
    IF ~client THEN <<>>
    ELSE (IF read # "none" THEN <<Io("settings_read", 0, 0, read)>> ELSE <<>>)
         \o (IF strptime(settings.cashback_start_date).raised THEN <<>>
             ELSE <<Io("read_file", 0, 0,
                       IF Readable(f) THEN "ok" ELSE "fail")>>)

\* ----------------------------------------------------- transactions table
\* upsert(batch, on_conflict=key): a stored row with the key of a batch row
\* is replaced, any other batch row is added
RowIndex(table, key, v) ==
    IF \E j \in 1..Len(table) : table[j][key] = v
    THEN CHOOSE j \in 1..Len(table) : table[j][key] = v
    ELSE 0
\* variants of the upsert: a plain insert, and an insert that skips a
\* conflicting row
UpsertInsertOnly(table, batch, key) == table \o batch
UpsertIgnoreConflict(table, batch, key) ==
    table \o SelectSeq(batch, LAMBDA r : RowIndex(table, key, r[key]) = 0)

UpsertRow(table, r, key) ==
    LET j == RowIndex(table, key, r[key])
    IN IF j = 0 THEN Append(table, r) ELSE [table EXCEPT ![j] = r]
\* the rows lo .. hi of the batch, in order (the range is halved to keep the
\* evaluation depth logarithmic in the batch size)
RECURSIVE UpsertRange(_, _, _, _, _)
UpsertRange(table, batch, lo, hi, key) ==
    IF lo > hi THEN table
    ELSE IF lo = hi THEN UpsertRow(table, batch[lo], key)
    ELSE LET mid == (lo + hi) \div 2
             left == UpsertRange(table, batch, lo, mid, key)
         IN IF Len(left) >= 0 THEN UpsertRange(left, batch, mid + 1, hi, key)
            ELSE left
Upsert(table, batch, key) == UpsertRange(table, batch, 1, Len(batch), key)

\* transactions[i:i + BATCH_SIZE]
\* variant: a batch takes one record of the next one with it
SliceOverlap(list, i) ==
    SubSeq(list, i + 1, IF i + BATCH_SIZE + 1 < Len(list)
                        THEN i + BATCH_SIZE + 1 ELSE Len(list))

\* variant: the first record of every batch is left out
SliceShort(list, i) ==
    SubSeq(list, i + 2, IF i + BATCH_SIZE < Len(list) THEN i + BATCH_SIZE
                        ELSE Len(list))

Slice(list, i) ==
    SubSeq(list, i + 1, IF i + BATCH_SIZE < Len(list) THEN i + BATCH_SIZE
                        ELSE Len(list))

\* variant: the loop is left at the first failing batch
SalesBatchBodyAbort(res, table, batch, i, ok) ==
    IF ok
    THEN [result |-> [res EXCEPT !.inserted = @ + Len(batch)],
          table |-> Upsert(table, batch, "import_hash"),
          i |-> i + BATCH_SIZE]
    ELSE [result |-> [res EXCEPT
                        !.errors = Append(@, Err("Batch", i \div BATCH_SIZE))],
          table |-> table,
          i |-> i + BATCH_SIZE * BATCH_SIZE]

\* variant: a batch whose upsert raised is counted as inserted too
SalesBatchBodyCountAll(res, table, batch, i, ok) ==
    IF ok
    THEN [result |-> [res EXCEPT !.inserted = @ + Len(batch)],
          table |-> Upsert(table, batch, "import_hash"),
          i |-> i + BATCH_SIZE]
    ELSE [result |-> [res EXCEPT
                        !.inserted = @ + Len(batch),
                        !.errors = Append(@, Err("Batch", i \div BATCH_SIZE))],
          table |-> table,
          i |-> i + BATCH_SIZE]

SalesBatchBody(res, table, batch, i, ok) ==
    IF ok
    THEN [result |-> [res EXCEPT !.inserted = @ + Len(batch)],
          table |-> Upsert(table, batch, "import_hash"),
          i |-> i + BATCH_SIZE]
    ELSE [result |-> [res EXCEPT
                        !.errors = Append(@, Err("Batch", i \div BATCH_SIZE))],
          table |-> table,
          i |-> i + BATCH_SIZE]

\* one iteration of the batch loop of upload_sales_csv; ok: the upsert did
\* not raise
sales_batch(res, table, transactions, i, ok) ==
    SalesBatchBody(res, table, Slice(transactions, i), i, ok)

\* variant: success whatever the errors
finishAlways(res) == [res EXCEPT !.success = TRUE]

\* result['success'] = len(result['errors']) == 0
finish(res) == [res EXCEPT !.success = (Len(res.errors) = 0)]

\* ---------------------------------------------------------- upload history
FirstN(list, n) == SubSeq(list, 1, IF Len(list) < n THEN Len(list) ELSE n)

\* variant: a failed insert is reported in the caller's result
log_upload_history_leaky(file_type, file_name, res, history, client, insert_ok) ==
    IF client /\ insert_ok
    THEN [ret |-> TRUE, result |-> res,
          history |-> Append(history,
                             [file_type |-> file_type, file_name |-> file_name,
                              records_total |-> res.total,
                              records_inserted |-> res.inserted,
                              records_updated |-> res.updated,
                              records_skipped |-> res.skipped,
                              errors |-> FirstN(res.errors, 10),
                              status |-> IF res.errors = <<>> THEN "success"
                                         ELSE "partial"])]
    ELSE [ret |-> FALSE, history |-> history,
          result |-> [res EXCEPT !.success = FALSE,
                                 !.errors = Append(@, Err("Upload", 0))]]

\* variant: the whole errors list is written
log_upload_history_untruncated(file_type, file_name, res, history, client, insert_ok) ==
    IF client /\ insert_ok
    THEN [ret |-> TRUE, result |-> res,
          history |-> Append(history,
                             [file_type |-> file_type, file_name |-> file_name,
                              records_total |-> res.total,
                              records_inserted |-> res.inserted,
                              records_updated |-> res.updated,
                              records_skipped |-> res.skipped,
                              errors |-> res.errors,
                              status |-> IF res.errors = <<>> THEN "success"
                                         ELSE "partial"])]
    ELSE [ret |-> FALSE, history |-> history, result |-> res]

\* log_upload_history: builds the record and inserts it; every failure is
\* caught.  client: what get_supabase_client returned; insert_ok: the insert
\* did not raise.  Gives the return value, the history table and the
\* caller's result object.
log_upload_history(file_type, file_name, res, history, client, insert_ok) ==
    LET record == [file_type |-> file_type,
                   file_name |-> file_name,
                   records_total |-> res.total,
                   records_inserted |-> res.inserted,
                   records_updated |-> res.updated,
                   records_skipped |-> res.skipped,
                   errors |-> FirstN(res.errors, 10),
                   status |-> IF res.errors = <<>> THEN "success"
                              ELSE "partial"]
    IN IF client /\ insert_ok
       THEN [ret |-> TRUE, history |-> Append(history, record), result |-> res]
       ELSE [ret |-> FALSE, history |-> history, result |-> res]

\* --------------------------------------------------------- customer inputs
CustomerRow(doc, nome, tel, email, cad, saldo, ult, qtd, tot) ==
    [Documento |-> doc, Nome |-> nome, Telefone |-> tel, Email |-> email,
     Data_Cadastro |-> cad, Saldo_Carteira |-> saldo,
     Data_Ultima_Compra |-> ult, Quantidade_Compras |-> qtd,
     Total_Compras |-> tot]

CustNew == CustomerRow(<<"1", "1", "1">>, <<"a", "n", "a">>, <<"9">>, <<>>, <<"1", "0", "/", "0", "1", "/", "2", "0", "2", "4">>, <<"5", ",", "0", "0">>, <<"2", "0", "/", "0", "6", "/", "2", "0", "2", "4">>, <<"5">>, <<"1", "0", "0", ",", "0", "0">>)
CustOld == CustomerRow(<<"1", "1", "1">>, <<"a", "n", "n">>, <<>>, <<"a">>, <<"0", "5", "/", "0", "1", "/", "2", "0", "2", "4">>, <<"7", ",", "5", "0">>, <<"0", "1", "/", "0", "3", "/", "2", "0", "2", "4">>, <<"2">>, <<"4", "0", ",", "0", "0">>)
CustOldDup == CustomerRow(<<"1", ".", "1", "-", "1">>, <<"a", "n">>, <<"8">>, <<"a">>, <<"0", "5", "/", "0", "1", "/", "2", "0", "2", "4">>, <<"7", ",", "0", "0">>, <<"0", "2", "/", "0", "3", "/", "2", "0", "2", "4">>, <<"3">>, <<"4", "5", ",", "0", "0">>)
CustOther == CustomerRow(<<"2", "2", "2">>, <<"b", "o", "b">>, <<>>, <<>>, <<"1", "1", "/", "0", "1", "/", "2", "4">>, <<>>, <<>>, <<>>, <<>>)
CustNoDoc == CustomerRow(<<>>, <<"e", "v", "e">>, <<>>, <<>>, <<"1", "1", "/", "0", "1", "/", "2", "4">>, <<"1">>, <<>>, <<"1">>, <<"1">>)
CustBadInt == CustomerRow(<<"3", "3", "3">>, <<"c", "i", "d">>, <<>>, <<>>, <<"1", "2", "/", "0", "1", "/", "2", "4">>, <<"1">>, <<>>, <<"1", ",", "5">>, <<"1">>)
CustOtherBad == CustomerRow(<<"2", "2", "2">>, <<"b", "o">>, <<>>, <<>>, <<"1", "1", "/", "0", "1", "/", "2", "4">>, <<>>, <<>>, <<"1", ",", "5">>, <<>>)
BulkCustomerRow(n) == CustomerRow(NatStr(n), <<"x">>, <<>>, <<>>, <<"1", "/", "6", "/", "2", "4">>, <<>>, <<>>, <<"1">>, <<"2">>)

CustomerFiles == {"customers_new", "customers_old", "customers_bad",
                  "customers_empty", "customers_missing"}
BulkCustomerFiles == {"customers_bulk", "customers_bulk_bad"}
BulkFiles == BulkSalesFiles \cup BulkCustomerFiles
CustomerFileRows(f) ==
    CASE f = "customers_new" -> <<CustNew, CustOther>>
      [] f = "customers_old" -> <<CustOld, CustNoDoc, CustOldDup>>
      [] f = "customers_bad" -> <<CustBadInt, CustOther, CustOtherBad>>
      [] f = "customers_empty" -> <<>>
      [] f = "customers_bulk" -> [n \in 1..BulkRows |-> BulkCustomerRow(n)]
      [] f = "customers_bulk_bad" ->
             [n \in 1..BulkRows |-> BulkCustomerRow(n)] \o <<CustBadInt>>

\* ----------------------------------------------------------- customer rows
OrNone(v) == IF v = <<>> THEN None ELSE v

\* variant: the first row of a document is kept
CustomerRowBodyFirstWins(acc, idx, row, doc, saldo, count, spent) ==
    IF doc = <<>> THEN [acc EXCEPT !.skipped = @ + 1]
    ELSE IF saldo.raised \/ count.raised \/ spent.raised
    THEN [acc EXCEPT !.errors = Append(@, Err("Row", idx + 1))]
    ELSE IF RowIndex(acc.customer_map, "doc", doc) # 0 THEN acc
    ELSE [acc EXCEPT !.customer_map =
            Append(@, [doc |-> doc,
                       nome |-> OrNone(row.Nome),
                       telefone |-> OrNone(row.Telefone),
                       email |-> OrNone(row.Email),
                       data_cadastro |-> parse_br_date(row.Data_Cadastro),
                       saldo_carteira |-> saldo.val,
                       first_visit |-> parse_br_date_only(row.Data_Cadastro),
                       last_visit |->
                           parse_br_date_only(row.Data_Ultima_Compra),
                       transaction_count |-> count.val,
                       total_spent |-> spent.val])]

\* the row loop body given the parsed fields of the row
CustomerRowBody(acc, idx, row, doc, saldo, count, spent) ==
    IF doc = <<>> THEN [acc EXCEPT !.skipped = @ + 1]
    ELSE IF saldo.raised \/ count.raised \/ spent.raised
    THEN [acc EXCEPT !.errors = Append(@, Err("Row", idx + 1))]
    ELSE [acc EXCEPT !.customer_map =
            Upsert(@, <<[doc |-> doc,
                         nome |-> OrNone(row.Nome),
                         telefone |-> OrNone(row.Telefone),
                         email |-> OrNone(row.Email),
                         data_cadastro |-> parse_br_date(row.Data_Cadastro),
                         saldo_carteira |-> saldo.val,
                         first_visit |-> parse_br_date_only(row.Data_Cadastro),
                         last_visit |->
                             parse_br_date_only(row.Data_Ultima_Compra),
                         transaction_count |-> count.val,
                         total_spent |-> spent.val]>>, "doc")]

\* one iteration of the row loop of upload_customers_csv: acc holds
\* customer_map (in insertion order), skipped and errors
CustomerRowStep(acc, idx, row) ==
    CustomerRowBody(acc, idx, row,
                    normalize_cpf(row.Documento),
                    parse_br_number(row.Saldo_Carteira),
                    IF row.Quantidade_Compras = <<>> THEN Ok(0)
                    ELSE ParseInt(row.Quantidade_Compras),
                    parse_br_number(row.Total_Compras))

\* the row loop over rows lo .. hi (1-based), in file order
RECURSIVE CustomerRows(_, _, _, _)
CustomerRows(acc, lo, hi, rows) ==
    IF lo > hi THEN acc
    ELSE IF lo = hi THEN CustomerRowStep(acc, lo - 1, rows[lo])
    ELSE LET mid == (lo + hi) \div 2
             left == CustomerRows(acc, lo, mid, rows)
         IN IF left.skipped >= 0 THEN CustomerRows(left, mid + 1, hi, rows)
            ELSE left

CustomersAfterRows(rows, acc) ==
    IF rows = <<>>
    THEN [pc |-> "returned", customers |-> <<>>,
          result |-> [NewResult EXCEPT !.success = TRUE]]
    ELSE [pc |-> "customers_batch", customers |-> acc.customer_map,
          result |-> [NewResult EXCEPT !.total = Len(rows),
                                       !.skipped = acc.skipped,
                                       !.errors = acc.errors]]

\* variant: no outer except, an unreadable file leaves the call by the
\* exception
CustomersAfterClientNoExcept(f, client, rows) ==
    IF ~client
    THEN [pc |-> "returned", customers |-> <<>>,
          result |-> [NewResult EXCEPT !.errors = <<Err("Config", 0)>>]]
    ELSE IF ~Readable(f)
    THEN [pc |-> "raised", customers |-> <<>>, result |-> NewResult]
    ELSE CustomersAfterRows(rows,
                            CustomerRows([customer_map |-> <<>>, skipped |-> 0,
                                          errors |-> <<>>], 1, Len(rows), rows))

CustomersAfterClient(f, client, rows) ==
    IF ~client
    THEN [pc |-> "returned", customers |-> <<>>,
          result |-> [NewResult EXCEPT !.errors = <<Err("Config", 0)>>]]
    ELSE IF ~Readable(f)
    THEN [pc |-> "log", customers |-> <<>>,
          result |-> [NewResult EXCEPT !.errors = <<Err("Upload", 0)>>]]
    ELSE CustomersAfterRows(rows,
                            CustomerRows([customer_map |-> <<>>, skipped |-> 0,
                                          errors |-> <<>>], 1, Len(rows), rows))

\* upload_customers_csv up to the batch loop: client check, parsing, the row
\* loop and the in-run deduplication by document
upload_customers_csv_begin(f, client) ==
    CustomersAfterClient(f, client,
                         IF Readable(f) THEN CustomerFileRows(f) ELSE <<>>)

upload_customers_csv_begin_io(f, client) ==
    IF ~client THEN <<>>
    ELSE <<Io("read_file", 0, 0, IF Readable(f) THEN "ok" ELSE "fail")>>

\* --------------------------------------------------------- customers table
\* GREATEST of two dates / two numbers, a NULL being ignored
DateKey(d) == IF d = None THEN 0 ELSE strptime(d).val
GreatestDate(a, b) == IF DateKey(b) > DateKey(a) THEN b ELSE a
Greatest(a, b) == IF b > a THEN b ELSE a

\* the upsert_customer_profiles_batch procedure of the backend: profile
\* fields are overwritten, dates and counters keep the greater value
SmartMergeRow(old, new) ==
    [doc |-> old.doc,
     nome |-> new.nome,
     telefone |-> new.telefone,
     email |-> new.email,
     data_cadastro |-> IF old.data_cadastro = None THEN new.data_cadastro
                       ELSE old.data_cadastro,
     saldo_carteira |-> new.saldo_carteira,
     first_visit |-> GreatestDate(old.first_visit, new.first_visit),
     last_visit |-> GreatestDate(old.last_visit, new.last_visit),
     transaction_count |-> Greatest(old.transaction_count, new.transaction_count),
     total_spent |-> Greatest(old.total_spent, new.total_spent)]
SmartUpsertRow(acc, r) ==
    LET j == RowIndex(acc.table, "doc", r.doc)
    IN IF j = 0
       THEN [acc EXCEPT !.table = Append(@, r), !.inserted = @ + 1]
       ELSE [acc EXCEPT !.table[j] = SmartMergeRow(@, r), !.updated = @ + 1]
RECURSIVE SmartUpsertRange(_, _, _, _)
SmartUpsertRange(acc, batch, lo, hi) ==
    IF lo > hi THEN acc
    ELSE IF lo = hi THEN SmartUpsertRow(acc, batch[lo])
    ELSE LET mid == (lo + hi) \div 2
             left == SmartUpsertRange(acc, batch, lo, mid)
         IN IF left.inserted >= 0 THEN SmartUpsertRange(left, batch, mid + 1, hi)
            ELSE left
upsert_customer_profiles_batch(table, batch) ==
    SmartUpsertRange([table |-> table, inserted |-> 0, updated |-> 0],
                     batch, 1, Len(batch))

\* variants: the flag is not cleared when the procedure is found missing;
\* the batch that finds it missing is not written
CustomersBatchBodyNoLatch(res, table, batch, k, use_smart_upsert, rpc, simple_ok, merged) ==
    IF use_smart_upsert /\ rpc = "ok"
    THEN [result |-> [res EXCEPT !.inserted = @ + merged.inserted,
                                 !.updated = @ + merged.updated],
          table |-> merged.table, use_smart_upsert |-> TRUE,
          io |-> <<Io("rpc", k, Len(batch), rpc)>>]
    ELSE IF use_smart_upsert /\ rpc = "nodata"
    THEN [result |-> res, table |-> merged.table, use_smart_upsert |-> TRUE,
          io |-> <<Io("rpc", k, Len(batch), rpc)>>]
    ELSE IF use_smart_upsert /\ rpc = "error"
    THEN [result |-> [res EXCEPT !.errors = Append(@, Err("Batch", k))],
          table |-> table, use_smart_upsert |-> TRUE,
          io |-> <<Io("rpc", k, Len(batch), rpc)>>]
    ELSE [result |-> IF simple_ok
                     THEN [res EXCEPT !.inserted = @ + Len(batch)]
                     ELSE [res EXCEPT !.errors = Append(@, Err("Batch", k))],
          table |-> IF simple_ok THEN Upsert(table, batch, "doc") ELSE table,
          use_smart_upsert |-> use_smart_upsert,
          io |-> (IF use_smart_upsert
                  THEN <<Io("rpc", k, Len(batch), rpc)>> ELSE <<>>)
                 \o <<Io("upsert_customers", k, Len(batch),
                         IF simple_ok THEN "ok" ELSE "fail")>>]
CustomersBatchBodySkip(res, table, batch, k, use_smart_upsert, rpc, simple_ok, merged) ==
    IF use_smart_upsert /\ rpc = "ok"
    THEN [result |-> [res EXCEPT !.inserted = @ + merged.inserted,
                                 !.updated = @ + merged.updated],
          table |-> merged.table, use_smart_upsert |-> TRUE,
          io |-> <<Io("rpc", k, Len(batch), rpc)>>]
    ELSE IF use_smart_upsert /\ rpc = "nodata"
    THEN [result |-> res, table |-> merged.table, use_smart_upsert |-> TRUE,
          io |-> <<Io("rpc", k, Len(batch), rpc)>>]
    ELSE IF use_smart_upsert /\ rpc = "error"
    THEN [result |-> [res EXCEPT !.errors = Append(@, Err("Batch", k))],
          table |-> table, use_smart_upsert |-> TRUE,
          io |-> <<Io("rpc", k, Len(batch), rpc)>>]
    ELSE IF use_smart_upsert
    THEN [result |-> res, table |-> table, use_smart_upsert |-> FALSE,
          io |-> <<Io("rpc", k, Len(batch), rpc)>>]
    ELSE [result |-> IF simple_ok
                     THEN [res EXCEPT !.inserted = @ + Len(batch)]
                     ELSE [res EXCEPT !.errors = Append(@, Err("Batch", k))],
          table |-> IF simple_ok THEN Upsert(table, batch, "doc") ELSE table,
          use_smart_upsert |-> FALSE,
          io |-> <<Io("upsert_customers", k, Len(batch),
                      IF simple_ok THEN "ok" ELSE "fail")>>]

\* variant: every error of the procedure falls back to the simple upsert
CustomersBatchBodyAnyError(res, table, batch, k, use_smart_upsert, rpc, simple_ok, merged) ==
    IF use_smart_upsert /\ rpc = "ok"
    THEN [result |-> [res EXCEPT !.inserted = @ + merged.inserted,
                                 !.updated = @ + merged.updated],
          table |-> merged.table, use_smart_upsert |-> TRUE,
          io |-> <<Io("rpc", k, Len(batch), rpc)>>]
    ELSE IF use_smart_upsert /\ rpc = "nodata"
    THEN [result |-> res, table |-> merged.table, use_smart_upsert |-> TRUE,
          io |-> <<Io("rpc", k, Len(batch), rpc)>>]
    ELSE [result |-> IF simple_ok
                     THEN [res EXCEPT !.inserted = @ + Len(batch)]
                     ELSE [res EXCEPT !.errors = Append(@, Err("Batch", k))],
          table |-> IF simple_ok THEN Upsert(table, batch, "doc") ELSE table,
          use_smart_upsert |-> FALSE,
          io |-> (IF use_smart_upsert
                  THEN <<Io("rpc", k, Len(batch), rpc)>> ELSE <<>>)
                 \o <<Io("upsert_customers", k, Len(batch),
                         IF simple_ok THEN "ok" ELSE "fail")>>]

\* the batch iteration given the batch, its index k and what the procedure
\* would make of the table
CustomersBatchBody(res, table, batch, k, use_smart_upsert, rpc, simple_ok, merged) ==
    IF use_smart_upsert /\ rpc = "ok"
    THEN [result |-> [res EXCEPT !.inserted = @ + merged.inserted,
                                 !.updated = @ + merged.updated],
          table |-> merged.table, use_smart_upsert |-> TRUE,
          io |-> <<Io("rpc", k, Len(batch), rpc)>>]
    ELSE IF use_smart_upsert /\ rpc = "nodata"
    THEN [result |-> res, table |-> merged.table, use_smart_upsert |-> TRUE,
          io |-> <<Io("rpc", k, Len(batch), rpc)>>]
    ELSE IF use_smart_upsert /\ rpc = "error"
    THEN [result |-> [res EXCEPT !.errors = Append(@, Err("Batch", k))],
          table |-> table, use_smart_upsert |-> TRUE,
          io |-> <<Io("rpc", k, Len(batch), rpc)>>]
    ELSE [result |-> IF simple_ok
                     THEN [res EXCEPT !.inserted = @ + Len(batch)]
                     ELSE [res EXCEPT !.errors = Append(@, Err("Batch", k))],
          table |-> IF simple_ok THEN Upsert(table, batch, "doc") ELSE table,
          use_smart_upsert |-> FALSE,
          io |-> (IF use_smart_upsert
                  THEN <<Io("rpc", k, Len(batch), rpc)>> ELSE <<>>)
                 \o <<Io("upsert_customers", k, Len(batch),
                         IF simple_ok THEN "ok" ELSE "fail")>>]

\* one iteration of the batch loop of upload_customers_csv.  rpc: what the
\* call of the procedure did ("ok", "nodata": it ran and returned empty data,
\* "missing": it raised the not-found error, "error": it raised another
\* error); simple_ok: the simple upsert did not raise.
customers_batch(res, table, customers, i, use_smart_upsert, rpc, simple_ok) ==
    CustomersBatchBody(res, table, Slice(customers, i), i \div BATCH_SIZE,
                       use_smart_upsert, rpc, simple_ok,
                       upsert_customer_profiles_batch(table,
                                                      Slice(customers, i)))

\* ------------------------------------------------------------------- state
VARIABLES
    env_configured,          \* SUPABASE_URL and a key are set
    rpc_exists,              \* the backend has upsert_customer_profiles_batch
    app_settings_row,        \* the backend's app_settings row: <<>> or <<row>>
    supabase_client,         \* _supabase_client is not None
    app_settings_cache,      \* _app_settings_cache
    app_settings_cache_time, \* _app_settings_cache_time
    now,                     \* time.time()
    transactions_table,      \* rows of the backend table transactions
    customers_table,         \* rows of the backend table customers
    upload_history,          \* rows of the backend table upload_history
    pc,                      \* control point of the running call
    op,                      \* "sales", "customers" or "none"
    filepath,                \* the file argument of the running call
    client,                  \* local client: a client was obtained
    settings,                \* local settings of upload_sales_csv
    records,                 \* local transactions / customers list
    i,                       \* index of the batch loop
    use_smart_upsert,        \* local flag of upload_customers_csv
    result,                  \* the result object of the running call
    log_ret,                 \* what log_upload_history returned
    io,                      \* file and backend calls of the running call
    prev_sales,              \* the sales call that returned last
    ncalls,                  \* calls started so far
    calls                    \* calls of the helper functions: name, arguments
                             \* and returned value of each

vars == <<env_configured, rpc_exists, app_settings_row, supabase_client,
          app_settings_cache, app_settings_cache_time, now,
          transactions_table, customers_table, upload_history, pc, op,
          filepath, client, settings, records, i, use_smart_upsert, result,
          log_ret, io, prev_sales, ncalls, calls>>

env == <<env_configured, rpc_exists, app_settings_row>>
cache == <<app_settings_cache, app_settings_cache_time>>
tables == <<transactions_table, customers_table>>

NoSales == [file |-> "none", settings |-> Defaults, ok |-> FALSE]

Init ==
    /\ env_configured \in BOOLEAN
    /\ rpc_exists \in BOOLEAN
    /\ app_settings_row \in {<<>>} \cup {<<r>> : r \in SettingsRows}
    /\ supabase_client = FALSE
    /\ app_settings_cache = <<>>
    /\ app_settings_cache_time = 0
    /\ now = 0
    /\ transactions_table = <<>>
    /\ customers_table = <<>>
    /\ upload_history = <<>>
    /\ pc = "idle"
    /\ op = "none"
    /\ filepath = "none"
    /\ client = FALSE
    /\ settings = Defaults
    /\ records = <<>>
    /\ i = 0
    /\ use_smart_upsert = TRUE
    /\ result = NewResult
    /\ log_ret = FALSE
    /\ io = <<>>
    /\ prev_sales = NoSales
    /\ ncalls = 0
    /\ calls = <<>>

\* ----------------------------------------------------------------- actions
CallBound(f) ==
    IF f \in RetryFiles THEN MaxRetryCalls
    ELSE IF f \in BulkFiles THEN MaxBulkCalls ELSE MaxCalls

\* what create_client can do when get_supabase_client is called now, and
\* what the select of get_app_settings can do: one outcome when the call is
\* not made
CreateOutcomes ==
    IF supabase_client \/ ~env_configured THEN {TRUE} ELSE BOOLEAN
ReadOutcomes ==
    IF app_settings_cache # <<>>
       /\ (now - app_settings_cache_time) < APP_SETTINGS_CACHE_TTL
    THEN {"row"}
    ELSE IF app_settings_row = <<>> THEN {"no_row", "exception"}
    ELSE {"row", "no_row", "exception"}

\* upload_sales_csv is called: lines up to the batch loop
UploadSalesBegin(f, create_ok, read) ==
    /\ pc = "idle"
    /\ ncalls < CallBound(f)
    /\ create_ok \in CreateOutcomes
    /\ read \in ReadOutcomes
    /\ \E cl \in {get_supabase_client(supabase_client, env_configured,
                                      create_ok)} :
       \E gs \in {get_app_settings(app_settings_cache, app_settings_cache_time,
                                   now, cl, read, app_settings_row)} :
       \E b \in {upload_sales_csv_begin(f, cl, gs.ret)} :
          /\ supabase_client' = cl
          /\ client' = cl
          /\ app_settings_cache' = IF cl THEN gs.cache ELSE app_settings_cache
          /\ app_settings_cache_time' =
                 IF cl THEN gs.cache_time ELSE app_settings_cache_time
          /\ settings' = IF cl THEN gs.ret ELSE Defaults
          /\ pc' = b.pc
          /\ records' = b.transactions
          /\ result' = b.result
          /\ io' = upload_sales_csv_begin_io(f, cl, gs.read, gs.ret)
    /\ op' = "sales"
    /\ filepath' = f
    /\ i' = 0
    /\ ncalls' = ncalls + 1
    /\ UNCHANGED <<calls, env, now, tables, upload_history, use_smart_upsert, log_ret,
                   prev_sales>>

\* one batch of upload_sales_csv is upserted
SalesBatch(ok) ==
    /\ pc = "sales_batch"
    /\ i < Len(records)
    /\ \E b \in {sales_batch(result, transactions_table, records, i, ok)} :
          /\ result' = b.result
          /\ transactions_table' = b.table
          /\ i' = b.i
          /\ io' = Append(io, Io("upsert_transactions", i \div BATCH_SIZE,
                                 Len(Slice(records, i)),
                                 IF ok THEN "ok" ELSE "fail"))
    /\ UNCHANGED <<calls, env, supabase_client, cache, now, customers_table,
                   upload_history, pc, op, filepath, client, settings, records,
                   use_smart_upsert, log_ret, prev_sales, ncalls>>

\* upload_customers_csv is called: lines up to the batch loop
UploadCustomersBegin(f, create_ok) ==
    /\ pc = "idle"
    /\ ncalls < CallBound(f)
    /\ create_ok \in CreateOutcomes
    /\ \E cl \in {get_supabase_client(supabase_client, env_configured,
                                      create_ok)} :
       \E b \in {upload_customers_csv_begin(f, cl)} :
          /\ supabase_client' = cl
          /\ client' = cl
          /\ pc' = b.pc
          /\ records' = b.customers
          /\ result' = b.result
          /\ io' = upload_customers_csv_begin_io(f, cl)
    /\ op' = "customers"
    /\ filepath' = f
    /\ i' = 0
    /\ use_smart_upsert' = TRUE
    /\ ncalls' = ncalls + 1
    /\ UNCHANGED <<calls, env, cache, now, tables, upload_history, settings, log_ret,
                   prev_sales>>

\* the outcomes the procedure call can have on this backend
RpcOutcomes == IF rpc_exists THEN {"ok", "nodata", "error"} ELSE {"missing"}

\* one batch of upload_customers_csv is written
CustomersBatch(rpc, simple_ok) ==
    /\ pc = "customers_batch"
    /\ i < Len(records)
    /\ rpc \in RpcOutcomes
    /\ \E b \in {customers_batch(result, customers_table, records, i,
                                  use_smart_upsert, rpc, simple_ok)} :
          /\ result' = b.result
          /\ customers_table' = b.table
          /\ use_smart_upsert' = b.use_smart_upsert
          /\ io' = io \o b.io
    /\ i' = i + BATCH_SIZE
    /\ UNCHANGED <<calls, env, supabase_client, cache, now, transactions_table,
                   upload_history, pc, op, filepath, client, settings, records,
                   log_ret, prev_sales, ncalls>>

\* the batch loop is over: success is computed
Finish ==
    /\ pc \in {"sales_batch", "customers_batch"}
    /\ i >= Len(records)
    /\ result' = finish(result)
    /\ pc' = "log"
    /\ UNCHANGED <<calls, env, supabase_client, cache, now, tables, upload_history, op,
                   filepath, client, settings, records, i, use_smart_upsert,
                   log_ret, io, prev_sales, ncalls>>

\* log_upload_history is called on the way out
LogUploadHistory(create_ok, insert_ok) ==
    /\ pc = "log"
    /\ create_ok \in CreateOutcomes
    /\ \E cl \in {get_supabase_client(supabase_client, env_configured,
                                      create_ok)} :
       \E l \in {log_upload_history(op, filepath, result, upload_history, cl,
                                    insert_ok)} :
          /\ supabase_client' = cl
          /\ upload_history' = l.history
          /\ result' = l.result
          /\ log_ret' = l.ret
          /\ io' = Append(io, Io("log_upload_history", 0, 0,
                                 IF ~cl THEN "no_client"
                                 ELSE IF insert_ok THEN "ok" ELSE "fail"))
    /\ pc' = "returned"
    /\ UNCHANGED <<calls, env, cache, now, tables, op, filepath, client, settings,
                   records, i, use_smart_upsert, prev_sales, ncalls>>

\* the caller has the result; the locals of the call are gone
Return ==
    /\ pc = "returned"
    /\ pc' = "idle"
    /\ prev_sales' =
           IF op = "sales"
           THEN [file |-> filepath, settings |-> settings,
                 ok |-> /\ \E n \in 1..Len(io) : io[n].op = "upsert_transactions"
                        /\ \A n \in 1..Len(io) : io[n].outcome # "fail"]
           ELSE prev_sales
    /\ op' = "none"
    /\ filepath' = "none"
    /\ client' = FALSE
    /\ settings' = Defaults
    /\ records' = <<>>
    /\ i' = 0
    /\ use_smart_upsert' = TRUE
    /\ result' = NewResult
    /\ log_ret' = FALSE
    /\ io' = <<>>
    /\ UNCHANGED <<calls, env, supabase_client, cache, now, tables, upload_history,
                   ncalls>>

\* time passes between calls.  The program reads the clock only to age the
\* settings cache, so time is let pass while a cached value is fresh.
Tick ==
    /\ pc = "idle"
    /\ app_settings_cache # <<>>
    /\ (now - app_settings_cache_time) < APP_SETTINGS_CACHE_TTL
    /\ now' = now + TickStep
    /\ UNCHANGED <<calls, env, supabase_client, cache, tables, upload_history, pc, op,
                   filepath, client, settings, records, i, use_smart_upsert,
                   result, log_ret, io, prev_sales, ncalls>>

Calls(sales_files, customer_files) ==
    \/ \E f \in sales_files, create_ok \in BOOLEAN,
          read \in {"row", "no_row", "exception"} :
              UploadSalesBegin(f, create_ok, read)
    \/ \E f \in customer_files, create_ok \in BOOLEAN :
              UploadCustomersBegin(f, create_ok)

Steps ==
    \/ \E ok \in BOOLEAN : SalesBatch(ok)
    \/ \E rpc \in {"ok", "nodata", "error", "missing"}, simple_ok \in BOOLEAN :
              CustomersBatch(rpc, simple_ok)
    \/ Finish
    \/ \E create_ok \in BOOLEAN, insert_ok \in BOOLEAN :
              LogUploadHistory(create_ok, insert_ok)
    \/ Return

\* calls on the small files
Next == Calls(SalesFiles, CustomerFiles) \/ Steps \/ Tick
Spec == Init /\ [][Next]_vars

\* calls of upload_customers_csv only, on the small files
NextCustomers ==
    \/ \E f \in CustomerFiles, create_ok \in BOOLEAN :
              UploadCustomersBegin(f, create_ok)
    \/ \E rpc \in {"ok", "nodata", "error", "missing"}, simple_ok \in BOOLEAN :
              CustomersBatch(rpc, simple_ok)
    \/ Finish
    \/ \E create_ok \in BOOLEAN, insert_ok \in BOOLEAN :
              LogUploadHistory(create_ok, insert_ok)
    \/ Return
SpecCustomers == Init /\ [][NextCustomers]_vars

\* calls of upload_sales_csv only, on the small files
NextSales ==
    \/ \E f \in SalesFiles, create_ok \in BOOLEAN,
          read \in {"row", "no_row", "exception"} :
              UploadSalesBegin(f, create_ok, read)
    \/ \E ok \in BOOLEAN : SalesBatch(ok)
    \/ Finish
    \/ \E create_ok \in BOOLEAN, insert_ok \in BOOLEAN :
              LogUploadHistory(create_ok, insert_ok)
    \/ Return
    \/ Tick
SpecSales == Init /\ [][NextSales]_vars

\* calls of upload_sales_csv on the file of rows that differ in their raw
\* text only
NextRaw ==
    \/ \E f \in {"sales_raw"}, create_ok \in BOOLEAN,
          read \in {"row", "no_row", "exception"} :
              UploadSalesBegin(f, create_ok, read)
    \/ \E ok \in BOOLEAN : SalesBatch(ok)
    \/ Finish
    \/ \E create_ok \in BOOLEAN, insert_ok \in BOOLEAN :
              LogUploadHistory(create_ok, insert_ok)
    \/ Return
    \/ Tick
SpecRaw == Init /\ [][NextRaw]_vars

\* get_app_settings is called on its own: the client is obtained only when
\* the cache is absent or stale
GetAppSettings(create_ok, read) ==
    /\ pc = "idle"
    /\ ncalls < MaxSettingsCalls
    /\ create_ok \in CreateOutcomes
    /\ read \in ReadOutcomes
    /\ \E cl \in {get_supabase_client(supabase_client, env_configured,
                                      create_ok)} :
       \E gs \in {get_app_settings(app_settings_cache, app_settings_cache_time,
                                   now, cl, read, app_settings_row)} :
          /\ supabase_client' = cl
          /\ client' = cl
          /\ app_settings_cache' = gs.cache
          /\ app_settings_cache_time' = gs.cache_time
          /\ settings' = gs.ret
          /\ io' = IF gs.read # "none"
                   THEN <<Io("settings_read", 0, 0, gs.read)>> ELSE <<>>
    /\ op' = "settings"
    /\ ncalls' = ncalls + 1
    /\ UNCHANGED <<calls, env, now, tables, upload_history, pc, filepath, records, i,
                   use_smart_upsert, result, log_ret, prev_sales>>

\* calls of get_app_settings alone, time passing while the cache is fresh
NextSettings ==
    \/ \E create_ok \in BOOLEAN, read \in {"row", "no_row", "exception"} :
              GetAppSettings(create_ok, read)
    \/ Tick
SpecSettings == Init /\ [][NextSettings]_vars

\* the uploader at rest, for the calls of the helper functions
InitHelpers ==
    Init /\ ~env_configured /\ ~rpc_exists /\ app_settings_row = <<>>
HelperFrame ==
    UNCHANGED <<env, supabase_client, cache, now, tables, upload_history, pc,
                op, filepath, client, settings, records, i, use_smart_upsert,
                result, log_ret, io, prev_sales, ncalls>>

\* raw cell texts given to generate_hash
HashFields == {<<>>, <<"1">>, <<"1", "|", "1">>}
CallGenerateHash(data_hora, doc_cliente, valor_venda, maquinas) ==
    /\ Len(calls) < MaxHashCalls
    /\ calls' = Append(calls,
                       [fn |-> "generate_hash",
                        args |-> <<data_hora, doc_cliente, valor_venda, maquinas>>,
                        ret |-> generate_hash(data_hora, doc_cliente,
                                              valor_venda, maquinas)])
    /\ HelperFrame
NextHash ==
    \E data_hora \in HashFields, doc_cliente \in HashFields,
       valor_venda \in HashFields, maquinas \in HashFields :
          CallGenerateHash(data_hora, doc_cliente, valor_venda, maquinas)
SpecHash == InitHelpers /\ [][NextHash]_vars

\* cell texts of the rows given to classify_transaction.  Valor_Venda is a
\* text that parse_br_number accepts: upload_sales_csv parses it (line 365)
\* before it classifies the row.
MachineTexts ==
    {<<>>, <<" ">>, RowMay.Maquinas, RowJun.Maquinas, RowRecarga.Maquinas,
     <<"R", "E", "C", "A", "R", "G", "A", " ", "1">>}
PaymentTexts ==
    {<<>>, <<"p", "i", "x">>, RowWallet.Meio_de_Pagamento,
     <<"S", "A", "L", "D", "O", " ", "D", "A", " ", "C", "A", "R", "T", "E", "I",
       "R", "A">>}
GrossTexts ==
    {<<>>, <<"0">>, <<"0", ",", "0", "0">>, <<"1", "0", ",", "0", "0">>,
     <<"1", ".", "2", "3", "4", ",", "5", "6">>, <<"-", "1">>}
CallClassifyTransaction(maq, mp, vv) ==
    /\ Len(calls) < MaxClassifyCalls
    /\ calls' = Append(calls,
                       [fn |-> "classify_transaction",
                        args |-> SalesRow(<<>>, <<>>, vv, vv, maq, mp),
                        ret |-> classify_transaction(
                                    SalesRow(<<>>, <<>>, vv, vv, maq, mp))])
    /\ HelperFrame
NextClassify ==
    \E maq \in MachineTexts, mp \in PaymentTexts, vv \in GrossTexts :
          CallClassifyTransaction(maq, mp, vv)
SpecClassify == InitHelpers /\ [][NextClassify]_vars

\* the texts of at most MaxTextLen characters over a cell character, the
\* two delimiters and the line break
Texts == UNION {[1..n -> {"a", ";", ",", NL}] : n \in 0..MaxTextLen}
\* one call of detect_delimiter on a text
CallDetectDelimiter(text) ==
    /\ calls = <<>>
    /\ calls' = Append(calls, [fn |-> "detect_delimiter", args |-> text,
                               ret |-> detect_delimiter(text)])
    /\ HelperFrame
NextDelimiter == \E text \in Texts : CallDetectDelimiter(text)
SpecDelimiter == InitHelpers /\ [][NextDelimiter]_vars

\* the characters of the files given to parse_csv_file: signatures, the
\* vendor prefix or none, then at most MaxBodyLen characters among a cell
\* character, the semicolon, the blank and the line break
Bodies == UNION {[1..n -> {"a", ";", " ", NL}] : n \in 0..MaxBodyLen}
Signatures == {<<>>, <<BOM>>, <<BOM, BOM>>}
Prefixes == {<<>>, IMTString \o <<"1", "2", ")", ":">>}
Contents == {b \o p \o t : b \in Signatures, p \in Prefixes, t \in Bodies}
\* one call of parse_csv_file on the characters of a file
CallParseCsvFile(content) ==
    /\ pc = "idle" /\ ncalls = 0 /\ calls = <<>>
    /\ calls' = Append(calls, [fn |-> "parse_csv_file", args |-> content,
                               ret |-> parse_csv_file(content)])
    /\ HelperFrame

\* parse_csv_file on its own, or calls of the uploads on the files without
\* a row and, beside them, on two files with rows
NextEmpty ==
    \/ \E content \in Contents : CallParseCsvFile(content)
    \/ calls = <<>> /\ Calls({"sales_empty", "sales_mixed"},
                            {"customers_empty", "customers_new"})
    \/ Steps
    \/ Tick
SpecEmpty == Init /\ [][NextEmpty]_vars

\* the results given to log_upload_history: n rows, each an error
LogResults ==
    {[NewResult EXCEPT !.total = n, !.success = (n = 0),
                       !.errors = [k \in 1..n |-> Err("Row", k)]] :
         n \in 0..MaxErrors}
\* log_upload_history is called on its own
CallLogUploadHistory(res, create_ok, insert_ok) ==
    /\ pc = "idle"
    /\ Len(calls) < MaxLogCalls
    /\ create_ok \in CreateOutcomes
    /\ \E cl \in {get_supabase_client(supabase_client, env_configured,
                                      create_ok)} :
       \E l \in {log_upload_history("sales", "sales_mixed", res,
                                    upload_history, cl, insert_ok)} :
          /\ supabase_client' = cl
          /\ upload_history' = l.history
          /\ calls' = Append(calls, [fn |-> "log_upload_history", args |-> res,
                                     ret |-> [ret |-> l.ret,
                                              result |-> l.result]])
    /\ UNCHANGED <<env, cache, now, tables, pc, op, filepath, client, settings,
                   records, i, use_smart_upsert, result, log_ret, io,
                   prev_sales, ncalls>>
NextLog ==
    \E res \in LogResults, create_ok \in BOOLEAN, insert_ok \in BOOLEAN :
        CallLogUploadHistory(res, create_ok, insert_ok)
SpecLog == Init /\ [][NextLog]_vars

\* the documents given to normalize_cpf: None, or the digits 1, 2, ... 9, 0,
\* 1, ... up to MaxDigits of them, alone or with a character that is no
\* digit put somewhere among them
DigitRun(n) == [k \in 1..n |-> DigitChar[(k % 10) + 1]]
Documents ==
    {None} \cup {DigitRun(n) : n \in 0..MaxDigits}
           \cup UNION {{SubSeq(DigitRun(n), 1, p) \o <<c>>
                            \o SubSeq(DigitRun(n), p + 1, n) :
                            p \in 0..n, c \in {".", "-", " "}} :
                        n \in 0..MaxDigits}
\* normalize_cpf is called on a document, then on what it returned
CallNormalizeCpf(doc) ==
    /\ calls = <<>>
    /\ calls' = Append(calls, [fn |-> "normalize_cpf", args |-> doc,
                               ret |-> normalize_cpf(doc)])
    /\ HelperFrame
CallNormalizeCpfAgain ==
    /\ Len(calls) = 1
    /\ calls' = Append(calls, [fn |-> "normalize_cpf", args |-> calls[1].ret,
                               ret |-> normalize_cpf(calls[1].ret)])
    /\ HelperFrame
NextCpf == (\E doc \in Documents : CallNormalizeCpf(doc)) \/ CallNormalizeCpfAgain
SpecCpf == InitHelpers /\ [][NextCpf]_vars

\* calls on the files of more than two batches, on a configured backend
\* without a settings row (nothing is cached, so the clock is never read)
InitBulk == Init /\ env_configured /\ app_settings_row = <<>>
NextBulk == Calls(BulkSalesFiles, BulkCustomerFiles) \/ Steps
SpecBulk == InitBulk /\ [][NextBulk]_vars

\* upload_sales_csv called again and again on one file of several batches
NextRetry ==
    \/ \E f \in RetryFiles, create_ok \in BOOLEAN,
          read \in {"row", "no_row", "exception"} :
              UploadSalesBegin(f, create_ok, read)
    \/ \E ok \in BOOLEAN : SalesBatch(ok)
    \/ Finish
    \/ \E create_ok \in BOOLEAN, insert_ok \in BOOLEAN :
              LogUploadHistory(create_ok, insert_ok)
    \/ Return
SpecRetry == InitBulk /\ [][NextRetry]_vars

\* ------------------------------------------------------------- properties
Hashes(table) == {table[j].import_hash : j \in 1..Len(table)}
IoOf(o) == SelectSeq(io, LAMBDA e : e.op = o)
ErrorsOf(kind) == SelectSeq(result.errors, LAMBDA e : e.kind = kind)
NumBatches(n) == (n + BATCH_SIZE - 1) \div BATCH_SIZE
Stored(table, key, v) == table[RowIndex(table, key, v)]

\* C1: a sales upload of the file that the previous sales upload sent with
\* every batch succeeding leaves the transactions table with the same rows
\* (the same import_hash keys and the same number of rows; the very same
\* rows when both calls computed with the same settings), and no
\* import_hash is ever on two stored rows.
NoDuplicateHash ==
    \A j, k \in 1..Len(transactions_table) :
        j # k => transactions_table[j].import_hash
                    # transactions_table[k].import_hash
SecondUploadOfSameFile ==
    pc = "sales_batch" /\ prev_sales.ok /\ prev_sales.file = filepath
C1_SalesIdempotent ==
    /\ []NoDuplicateHash
    /\ [][SecondUploadOfSameFile =>
            /\ Hashes(transactions_table') = Hashes(transactions_table)
            /\ Len(transactions_table') = Len(transactions_table)
            /\ (prev_sales.settings = settings
                   => transactions_table' = transactions_table)]_vars
C1_Witness ==
    /\ pc = "log" /\ op = "sales"
    /\ prev_sales.ok /\ prev_sales.file = filepath
    /\ prev_sales.settings = settings
    /\ result.inserted > 0 /\ result.errors = <<>>

\* C2 (as claimed): no step lowers the stored transaction_count or
\* total_spent of a customer or moves its first_visit or last_visit back.
C2_NeverRegress ==
    [][\A j \in 1..Len(customers_table) :
          /\ RowIndex(customers_table', "doc", customers_table[j].doc) # 0
          /\ Stored(customers_table', "doc",
                    customers_table[j].doc).transaction_count
                 >= customers_table[j].transaction_count
          /\ Stored(customers_table', "doc", customers_table[j].doc).total_spent
                 >= customers_table[j].total_spent
          /\ DateKey(Stored(customers_table', "doc",
                            customers_table[j].doc).first_visit)
                 >= DateKey(customers_table[j].first_visit)
          /\ DateKey(Stored(customers_table', "doc",
                            customers_table[j].doc).last_visit)
                 >= DateKey(customers_table[j].last_visit)]_vars

\* C3: when upload_customers_csv returns success, every document of the
\* file is stored with the nome, telefone, email and saldo_carteira of its
\* record in this import.
C3_ProfileLatestWins ==
    (pc = "returned" /\ op = "customers" /\ result.success) =>
        \A n \in 1..Len(records) :
            /\ RowIndex(customers_table, "doc", records[n].doc) # 0
            /\ Stored(customers_table, "doc", records[n].doc).nome
                   = records[n].nome
            /\ Stored(customers_table, "doc", records[n].doc).telefone
                   = records[n].telefone
            /\ Stored(customers_table, "doc", records[n].doc).email
                   = records[n].email
            /\ Stored(customers_table, "doc", records[n].doc).saldo_carteira
                   = records[n].saldo_carteira
C3_Witness ==
    /\ pc = "returned" /\ op = "customers" /\ result.success
    /\ filepath = "customers_old" /\ Len(customers_table) = 2
    /\ ~use_smart_upsert

\* C4: the procedure was found missing and no simple upsert failed
FoundMissing == \E n \in 1..Len(io) : io[n].op = "rpc" /\ io[n].outcome = "missing"
SimpleAllOk == \A n \in 1..Len(io) : io[n].outcome # "fail"
\* every batch went through the simple upsert, in order, and is stored
AllThroughSimple ==
    /\ Len(IoOf("upsert_customers")) = NumBatches(Len(records))
    /\ \A n \in 1..Len(IoOf("upsert_customers")) :
           IoOf("upsert_customers")[n].k = n - 1
    /\ \A n \in 1..Len(records) :
           /\ RowIndex(customers_table, "doc", records[n].doc) # 0
           /\ Stored(customers_table, "doc", records[n].doc) = records[n]
\* C4 (as claimed): then upload_customers_csv returns success with no error,
\* every batch written through the simple upsert.
C4_DegradesAlways ==
    (pc = "returned" /\ op = "customers" /\ FoundMissing /\ SimpleAllOk) =>
        (result.success /\ result.errors = <<>> /\ AllThroughSimple)
\* C4 (amended): ... and no row raised an error while it was parsed ...
C4_Degrades ==
    (pc = "returned" /\ op = "customers" /\ FoundMissing /\ SimpleAllOk
        /\ ErrorsOf("Row") = <<>>) =>
        (result.success /\ result.errors = <<>> /\ AllThroughSimple)
C4_Witness ==
    /\ pc = "returned" /\ op = "customers" /\ FoundMissing /\ SimpleAllOk
    /\ ErrorsOf("Row") = <<>>
    /\ Len(records) > 2 * BATCH_SIZE
    /\ result.success

\* C5: within a call no procedure call follows the one that found the
\* procedure missing.
C5_FallbackOneWay ==
    \A n, m \in 1..Len(io) :
        (n < m /\ io[n].op = "rpc" /\ io[n].outcome = "missing")
            => io[m].op # "rpc"
C5_Witness ==
    /\ pc = "returned" /\ op = "customers"
    /\ \E n \in 1..Len(io) :
           io[n].op = "rpc" /\ io[n].outcome = "missing" /\ io[n].k = 0
    /\ Len(IoOf("upsert_customers")) = 3

\* C6: at every return, success is true exactly when errors is empty.
C6_SuccessIffNoErrors ==
    pc = "returned" => (result.success <=> result.errors = <<>>)
C6_Witness ==
    /\ pc = "returned" /\ ~result.success
    /\ ErrorsOf("Batch") # <<>> /\ result.skipped > 0

\* C7 (as claimed): upload_sales_csv has called log_upload_history whenever
\* it returns.
C7_AlwaysLogs ==
    (pc = "returned" /\ op = "sales") => IoOf("log_upload_history") # <<>>

\* C8: log_upload_history returns normally, True exactly when the insert
\* was made, and leaves the caller's result as it was, so the result is the
\* same whether the insert fails or not.
C8_LoggingBestEffort ==
    [][pc = "log" =>
          /\ pc' = "returned"
          /\ result' = result
          /\ log_ret' = (io'[Len(io')].outcome = "ok")]_vars
C8_Witness ==
    /\ pc = "returned" /\ IoOf("log_upload_history") # <<>>
    /\ io[Len(io)].outcome = "fail" /\ ~log_ret
    /\ result.success /\ result.inserted > 0

\* C9: the batches of upload_sales_csv are submitted once each in
\* increasing order, all of them by the end of the loop, and the 'Batch k'
\* errors are exactly the failed batches, in order.
C9_BatchesInOrder ==
    op = "sales" =>
        /\ \A n \in 1..Len(IoOf("upsert_transactions")) :
               IoOf("upsert_transactions")[n].k = n - 1
        /\ pc \in {"log", "returned"} =>
               Len(IoOf("upsert_transactions")) = NumBatches(Len(records))
        /\ ErrorsOf("Batch")
               = [n \in 1..Len(SelectSeq(IoOf("upsert_transactions"),
                                         LAMBDA e : e.outcome = "fail")) |->
                     Err("Batch", SelectSeq(IoOf("upsert_transactions"),
                                            LAMBDA e : e.outcome = "fail")[n].k)]
C9_Witness ==
    /\ pc = "returned" /\ op = "sales"
    /\ Len(IoOf("upsert_transactions")) = 3
    /\ IoOf("upsert_transactions")[1].outcome = "fail"
    /\ IoOf("upsert_transactions")[2].outcome = "ok"
    /\ IoOf("upsert_transactions")[3].outcome = "fail"

\* C10: a call that got no client returns success false, the one error
\* 'Supabase not configured' and all counters 0, having read no file, fetched
\* no settings and made no backend call.
C10_ConfigShortCircuit ==
    (pc = "returned" /\ ~client) =>
        /\ result = [NewResult EXCEPT !.errors = <<Err("Config", 0)>>]
        /\ io = <<>>
C10_Witness ==
    pc = "returned" /\ ~client /\ op = "sales" /\ env_configured

\* C11: a row whose parsing raises inside the row loop
SalesRowMalformed(row) ==
    /\ parse_br_date(row.Data_Hora) # None
    /\ normalize_cpf(row.Doc_Cliente) # <<>>
    /\ \/ parse_br_number(row.Valor_Venda).raised
       \/ parse_br_number(row.Valor_Pago).raised
       \/ strptime(Split(parse_br_date(row.Data_Hora), "T")[1]).raised
CustomerRowMalformed(row) ==
    /\ normalize_cpf(row.Documento) # <<>>
    /\ \/ parse_br_number(row.Saldo_Carteira).raised
       \/ parse_br_number(row.Total_Compras).raised
       \/ (row.Quantidade_Compras # <<>> /\ ParseInt(row.Quantidade_Compras).raised)
\* the running call read its file and the file has a malformed row
MalformedRowRead ==
    /\ \E n \in 1..Len(io) : io[n].op = "read_file" /\ io[n].outcome = "ok"
    /\ IF op = "sales"
       THEN \E n \in 1..Len(SalesFileRows(filepath)) :
                SalesRowMalformed(SalesFileRows(filepath)[n])
       ELSE \E n \in 1..Len(CustomerFileRows(filepath)) :
                CustomerRowMalformed(CustomerFileRows(filepath)[n])
\* an unreadable file, a malformed row, a failed upsert or procedure call
DataOrWriteFailure ==
    \/ \E n \in 1..Len(io) :
           \/ io[n].op \in {"read_file", "upsert_transactions", "upsert_customers"}
              /\ io[n].outcome = "fail"
           \/ io[n].op = "rpc" /\ io[n].outcome = "error"
    \/ MalformedRowRead
\* a failed settings read or a failed history insert
SettingsOrHistoryFailure ==
    \E n \in 1..Len(io) :
        \/ io[n].op = "settings_read" /\ io[n].outcome = "exception"
        \/ io[n].op = "log_upload_history" /\ io[n].outcome = "fail"
\* C11 (as claimed): no call ends by an exception, and a call in which the
\* file was unreadable, a row malformed, the settings read, an upsert or the
\* history insert failed returns success false with a message in errors.
C11_EveryFailureReported ==
    /\ pc # "raised"
    /\ (pc = "returned" /\ (DataOrWriteFailure \/ SettingsOrHistoryFailure))
           => (~result.success /\ result.errors # <<>>)
\* C11 (amended): no call ends by an exception, and a call in which the file
\* was unreadable, a row malformed or an upsert failed returns success false
\* with a message in errors (a failed settings read or history insert is
\* absorbed and leaves the result as it is).
C11_NoExceptionPropagates ==
    /\ pc # "raised"
    /\ (pc = "returned" /\ DataOrWriteFailure)
           => (~result.success /\ result.errors # <<>>)
C11_Witness ==
    /\ pc = "returned" /\ op = "customers"
    /\ \E n \in 1..Len(io) : io[n].op = "read_file" /\ io[n].outcome = "fail"
    /\ result.errors = <<Err("Upload", 0)>>

\* the rows the running sales call read from its file, once the row loop
\* is over
SalesRowsRead ==
    IF /\ op = "sales" /\ pc \in {"sales_batch", "log", "returned"}
       /\ \E n \in 1..Len(io) : io[n].op = "read_file" /\ io[n].outcome = "ok"
    THEN SalesFileRows(filepath) ELSE <<>>
RowHash(row) ==
    generate_hash(row.Data_Hora, row.Doc_Cliente, row.Valor_Venda, row.Maquinas)
\* Data_Hora is blank or is no date
BadDate(row) ==
    \/ parse_br_date(row.Data_Hora) = None
    \/ strptime(Split(parse_br_date(row.Data_Hora), "T")[1]).raised
BadDateOrDoc(row) == BadDate(row) \/ normalize_cpf(row.Doc_Cliente) = <<>>

\* C12 (as claimed): every row with a blank or unparsable Data_Hora or an
\* empty normalized Doc_Cliente is counted in skipped, has no entry in
\* errors and no record among those sent; total counts every row.
C12_BadRowsSkipped ==
    SalesRowsRead # <<>> =>
        /\ result.total = Len(SalesRowsRead)
        /\ result.skipped >= Cardinality({n \in 1..Len(SalesRowsRead) :
                                            BadDateOrDoc(SalesRowsRead[n])})
        /\ \A n \in 1..Len(SalesRowsRead) :
               BadDateOrDoc(SalesRowsRead[n]) =>
                   /\ ~InSeq(result.errors, Err("Row", n))
                   /\ \A j \in 1..Len(records) :
                          records[j].import_hash # RowHash(SalesRowsRead[n])

\* row n repeats the import_hash of an earlier row that was accepted
RepeatsAccepted(rows, n) ==
    \E m \in 1..(n - 1) :
        /\ RowHash(rows[m]) = RowHash(rows[n])
        /\ \E j \in 1..Len(records) : records[j].import_hash = RowHash(rows[m])
\* row n is skipped by the tests of its date and document
SkippedByGuard(rows, n) ==
    \/ parse_br_date(rows[n].Data_Hora) = None
    \/ normalize_cpf(rows[n].Doc_Cliente) = <<>>

\* C13 (as claimed): no two records of a call share an import_hash, and a
\* row that repeats the hash of an earlier accepted row is counted in
\* skipped (with the rows skipped for their date or document) and has no
\* entry in errors.
C13_DuplicatesCountedSkipped ==
    SalesRowsRead # <<>> =>
        /\ \A j, k \in 1..Len(records) :
               j # k => records[j].import_hash # records[k].import_hash
        /\ \A n \in 1..Len(SalesRowsRead) :
               RepeatsAccepted(SalesRowsRead, n)
                   => ~InSeq(result.errors, Err("Row", n))
        /\ result.skipped
               = Cardinality({n \in 1..Len(SalesRowsRead) :
                                SkippedByGuard(SalesRowsRead, n)})
                 + Cardinality({n \in 1..Len(SalesRowsRead) :
                                  RepeatsAccepted(SalesRowsRead, n)})

\* the rows the running customers call read from its file, once the row
\* loop is over
CustomerRowsRead ==
    IF /\ op = "customers" /\ pc \in {"customers_batch", "log", "returned"}
       /\ \E n \in 1..Len(io) : io[n].op = "read_file" /\ io[n].outcome = "ok"
    THEN CustomerFileRows(filepath) ELSE <<>>
\* the record of the document of a row carries the text fields of the row
CarriesRow(row) ==
    \E j \in 1..Len(records) :
        /\ records[j].doc = normalize_cpf(row.Documento)
        /\ records[j].nome = OrNone(row.Nome)
        /\ records[j].telefone = OrNone(row.Telefone)
        /\ records[j].email = OrNone(row.Email)
        /\ records[j].last_visit = parse_br_date_only(row.Data_Ultima_Compra)
OneRecordPerDocument ==
    op = "customers" =>
        \A j, k \in 1..Len(records) : j # k => records[j].doc # records[k].doc
\* C14 (as claimed): one record per normalized document, carrying the
\* values of the last row of the file with that document.
C14_LastRowWins ==
    /\ OneRecordPerDocument
    /\ \A n \in 1..Len(CustomerRowsRead) :
           (/\ normalize_cpf(CustomerRowsRead[n].Documento) # <<>>
            /\ \A m \in (n + 1)..Len(CustomerRowsRead) :
                   normalize_cpf(CustomerRowsRead[m].Documento)
                       # normalize_cpf(CustomerRowsRead[n].Documento))
               => CarriesRow(CustomerRowsRead[n])
\* C14 (amended): ... of the last row with that document that was parsed
\* without error; a document whose rows all raised has no record.
C14_LastParsedRowWins ==
    /\ OneRecordPerDocument
    /\ \A n \in 1..Len(CustomerRowsRead) :
           (/\ normalize_cpf(CustomerRowsRead[n].Documento) # <<>>
            /\ ~CustomerRowMalformed(CustomerRowsRead[n])
            /\ \A m \in (n + 1)..Len(CustomerRowsRead) :
                   \/ normalize_cpf(CustomerRowsRead[m].Documento)
                          # normalize_cpf(CustomerRowsRead[n].Documento)
                   \/ CustomerRowMalformed(CustomerRowsRead[m]))
               => CarriesRow(CustomerRowsRead[n])
    /\ CustomerRowsRead # <<>> =>
           \A j \in 1..Len(records) :
               \E n \in 1..Len(CustomerRowsRead) :
                   /\ normalize_cpf(CustomerRowsRead[n].Documento) = records[j].doc
                   /\ ~CustomerRowMalformed(CustomerRowsRead[n])
C14_Witness ==
    /\ pc = "customers_batch" /\ filepath = "customers_old"
    /\ Len(CustomerRowsRead) = 3 /\ Len(records) = 1
    /\ records[1].nome = CustOldDup.Nome

\* a step in which get_app_settings is called, by upload_sales_csv or alone
SettingsCalled ==
    \/ pc = "idle" /\ op' = "sales" /\ client'
    \/ op' = "settings" /\ ncalls' # ncalls
\* C15: a get_app_settings call made less than APP_SETTINGS_CACHE_TTL
\* seconds after the cache was loaded returns the cached value, reads
\* nothing from the backend and leaves the cache as it is; a call made at
\* that age or later makes exactly one backend read.
C15_CacheFreshness ==
    [][(SettingsCalled /\ app_settings_cache # <<>>) =>
          IF (now - app_settings_cache_time) < APP_SETTINGS_CACHE_TTL
          THEN /\ settings' = app_settings_cache[1]
               /\ SelectSeq(io', LAMBDA e : e.op = "settings_read") = <<>>
               /\ app_settings_cache' = app_settings_cache
               /\ app_settings_cache_time' = app_settings_cache_time
          ELSE Len(SelectSeq(io', LAMBDA e : e.op = "settings_read")) = 1]_vars
C15_Witness ==
    /\ op = "settings"
    /\ app_settings_cache # <<>>
    /\ now - app_settings_cache_time >= APP_SETTINGS_CACHE_TTL
    /\ IoOf("settings_read") # <<>>

\* the settings read of the running call failed
SettingsReadFailed(log) ==
    \E n \in 1..Len(log) :
        log[n].op = "settings_read" /\ log[n].outcome \in {"exception", "no_row"}
\* C16: the cache holds nothing or the row of the backend; a call made
\* with the cache absent or stale reads the backend once if it has a
\* client, and when it has none or the read fails it returns the defaults
\* 7.5 and 2024-06-01 and leaves the cached value and its timestamp as they
\* were.
C16_FailuresNotCached ==
    /\ [](app_settings_cache \in {<<>>, app_settings_row})
    /\ [][(/\ SettingsCalled
           /\ (\/ app_settings_cache = <<>>
               \/ (now - app_settings_cache_time) >= APP_SETTINGS_CACHE_TTL))
          => /\ client' =>
                   Len(SelectSeq(io', LAMBDA e : e.op = "settings_read")) = 1
             /\ (~client' \/ SettingsReadFailed(io')) =>
                   /\ settings' = [cashback_percent |-> 750,
                                   cashback_start_date |->
                                       <<"2", "0", "2", "4", "-", "0", "6",
                                         "-", "0", "1">>]
                   /\ app_settings_cache' = app_settings_cache
                   /\ app_settings_cache_time' = app_settings_cache_time]_vars
C16_Witness ==
    /\ op = "settings"
    /\ SettingsReadFailed(io) /\ settings = Defaults
    /\ app_settings_row # <<>>
    /\ app_settings_cache # <<>>
    /\ now - app_settings_cache_time >= APP_SETTINGS_CACHE_TTL

\* C17 (as claimed): two calls of generate_hash return the same value
\* exactly when they were given the same four fields.
C17_HashInjective ==
    \A j, k \in 1..Len(calls) :
        (calls[j].fn = "generate_hash" /\ calls[k].fn = "generate_hash")
            => (calls[j].ret = calls[k].ret <=> calls[j].args = calls[k].args)

\* the transaction is dated on or after the effective date of the settings
\* of the running call
OnOrAfterStart(r) ==
    strptime(Split(r.data_hora, "T")[1]).val
        >= strptime(settings.cashback_start_date).val
\* amount (hundredths) is gross (hundredths) times percent (hundredths of a
\* percent) / 100, to the nearest hundredth
NearestCent(amount, gross, percent) ==
    /\ 2 * (amount * SCALE * 100 - gross * percent) <= SCALE * 100
    /\ 2 * (gross * percent - amount * SCALE * 100) <= SCALE * 100
\* C18: every record of a sales call has cashback_amount = gross x rate to
\* 2 decimals and net_value = paid - cashback_amount when its date is on or
\* after the effective date and gross > 0, and cashback_amount = 0 and
\* net_value = paid otherwise.
C18_CashbackBoundary ==
    op = "sales" =>
        \A j \in 1..Len(records) :
            IF OnOrAfterStart(records[j]) /\ records[j].valor_venda > 0
            THEN /\ NearestCent(records[j].cashback_amount,
                                records[j].valor_venda,
                                settings.cashback_percent)
                 /\ records[j].net_value
                        = records[j].valor_pago - records[j].cashback_amount
            ELSE /\ records[j].cashback_amount = 0
                 /\ records[j].net_value = records[j].valor_pago
C18_Witness ==
    /\ pc = "sales_batch" /\ filepath = "sales_mixed" /\ settings = Defaults
    /\ \E j, k \in 1..Len(records) :
           /\ Split(records[j].data_hora, "T")[1]
                  = <<"2", "0", "2", "4", "-", "0", "5", "-", "3", "1">>
           /\ records[j].valor_venda > 0 /\ records[j].cashback_amount = 0
           /\ Split(records[k].data_hora, "T")[1]
                  = settings.cashback_start_date
           /\ records[k].cashback_amount = 75

\* the decision table: recharge, then wallet, then purchase
IsRecharge(row) == Contains(Lower(row.Maquinas), RECARGA)
PaidFromWallet(row) == Contains(Lower(row.Meio_de_Pagamento), SALDO)
TypeOf(row, gross) ==
    IF IsRecharge(row) THEN "TYPE_3"
    ELSE IF PaidFromWallet(row) \/ (gross = 0 /\ row.Maquinas # <<>>)
    THEN "TYPE_2"
    ELSE IF row.Maquinas # <<>> /\ gross > 0 THEN "TYPE_1"
    ELSE "UNKNOWN"
AllBatchesSucceeded ==
    /\ op = "sales" /\ pc \in {"log", "returned"}
    /\ Len(IoOf("upsert_transactions")) = NumBatches(Len(records))
    /\ IoOf("upsert_transactions") # <<>>
    /\ \A n \in 1..Len(io) : io[n].outcome # "fail"
\* the previous sales call was on the same file and did not write all of it
RetryOfFailedRun == prev_sales.file = filepath /\ ~prev_sales.ok
\* C20: when the sales call before was on the same file and did not store
\* every batch, a call whose batches all succeed leaves in the table exactly
\* the records of the file, each once: what one fully successful call on the
\* empty table stores.
C20_RetryConverges ==
    (AllBatchesSucceeded /\ RetryOfFailedRun) =>
        /\ Len(transactions_table) = Len(records)
        /\ {transactions_table[n] : n \in 1..Len(transactions_table)}
               = {records[n] : n \in 1..Len(records)}
        /\ NoDuplicateHash
C20_Witness ==
    /\ AllBatchesSucceeded /\ RetryOfFailedRun /\ pc = "returned"
    /\ Len(records) > 2 * BATCH_SIZE
    /\ transactions_table # records

\* the first line of a text
FirstLine(text) == IF text = <<>> THEN <<>> ELSE Split(text, NL)[1]
\* C21 (as claimed): detect_delimiter returns ";" when the first line has at
\* least as many ";" as "," (a tie included, and a line with neither), and
\* "," only when the "," are strictly more numerous.
C21_SemicolonWinsTie ==
    \A j \in 1..Len(calls) :
        calls[j].fn = "detect_delimiter" =>
            calls[j].ret
                = IF Count(FirstLine(calls[j].args), ";")
                       >= Count(FirstLine(calls[j].args), ",")
                  THEN ";" ELSE ","

\* C22 (as claimed): every transaction record of a sales call has
\* valor_venda, valor_pago, cashback_amount and net_value >= 0.
C22_AmountsNonNegative ==
    op = "sales" =>
        \A j \in 1..Len(records) :
            /\ records[j].valor_venda >= 0
            /\ records[j].valor_pago >= 0
            /\ records[j].cashback_amount >= 0
            /\ records[j].net_value >= 0

\* the batch iteration that is taking place called the procedure, and the
\* call raised an error that is not the not-found one
RpcOtherError ==
    /\ pc = "customers_batch"
    /\ Len(io') > Len(io)
    /\ io'[Len(io) + 1].op = "rpc"
    /\ io'[Len(io) + 1].outcome = "error"
\* C23: a batch whose procedure call raises another error than not-found
\* adds exactly one "Batch k" error, is not written through the simple
\* upsert, leaves the smart path enabled and the loop goes on to the next
\* batch.
C23_OtherRpcErrorRecorded ==
    [][RpcOtherError =>
          /\ result'.errors
                 = Append(result.errors, Err("Batch", i \div BATCH_SIZE))
          /\ result'.inserted = result.inserted
          /\ result'.updated = result.updated
          /\ io' = Append(io, Io("rpc", i \div BATCH_SIZE,
                                 Len(Slice(records, i)), "error"))
          /\ customers_table' = customers_table
          /\ use_smart_upsert /\ use_smart_upsert'
          /\ pc' = "customers_batch" /\ i' = i + BATCH_SIZE]_vars
\* the procedure raised for the first batch and was called for the second
C23_Witness ==
    /\ op = "customers" /\ pc = "returned"
    /\ \E n \in 1..Len(io) :
           /\ io[n].op = "rpc" /\ io[n].outcome = "error" /\ io[n].k = 0
           /\ n < Len(io)
           /\ io[n + 1].op = "rpc" /\ io[n + 1].k = 1
    /\ Len(result.errors) = 1

\* a batch iteration of either upload takes place
BatchStep == pc \in {"sales_batch", "customers_batch"} /\ io' # io
\* the index of the last record of the batch that starts after record i
BatchEnd ==
    IF i + BATCH_SIZE < Len(records) THEN i + BATCH_SIZE ELSE Len(records)
\* the entries io gained in the step all carry batch number k and size n
Submitted(k, n) ==
    \A m \in (Len(io) + 1)..Len(io') : io'[m].k = k /\ io'[m].n = n
\* the table written by the step holds the batch lo..hi of the records
WroteBatch(lo, hi) ==
    /\ (op = "sales" /\ io'[Len(io')].outcome = "ok")
           => transactions_table'
                  = Upsert(transactions_table, SubSeq(records, lo, hi),
                           "import_hash")
    /\ (op = "customers" /\ io'[Len(io')].op = "upsert_customers"
           /\ io'[Len(io')].outcome = "ok")
           => customers_table'
                  = Upsert(customers_table, SubSeq(records, lo, hi), "doc")
    /\ (op = "customers" /\ io'[Len(io')].op = "rpc"
           /\ io'[Len(io')].outcome \in {"ok", "nodata"})
           => customers_table'
                  = upsert_customer_profiles_batch(
                        customers_table, SubSeq(records, lo, hi)).table
\* C24: the batches of a run partition the accepted records: batch k is the
\* records k * 100 + 1 .. k * 100 + n in order, with n = 100 for every batch
\* but the last and 1 <= n <= 100 for the last, and the loop ends when every
\* record has been in a batch.
C24_BatchesPartition ==
    [][/\ BatchStep =>
            /\ i % BATCH_SIZE = 0 /\ i < Len(records)
            /\ Submitted(i \div BATCH_SIZE, BatchEnd - i)
            /\ BatchEnd - i <= BATCH_SIZE
            /\ BatchEnd < Len(records) => BatchEnd - i = BATCH_SIZE
            /\ WroteBatch(i + 1, BatchEnd)
            /\ i' = i + BATCH_SIZE /\ records' = records
       /\ (pc \in {"sales_batch", "customers_batch"} /\ pc' = "log")
              => i >= Len(records)]_vars
\* a run of three batches, the last one shorter, has returned
C24_Witness ==
    /\ pc = "returned" /\ Len(records) > 2 * BATCH_SIZE
    /\ Len(records) < 3 * BATCH_SIZE
    /\ \E n \in 1..Len(io) :
           /\ io[n].k = 2 /\ io[n].n = Len(records) - 2 * BATCH_SIZE
           /\ io[n].outcome = "ok"
    /\ \E n \in 1..Len(io) : io[n].k = 1 /\ io[n].n = BATCH_SIZE

\* the characters of a file hold, after the signatures and the vendor
\* prefix, nothing but blanks and line breaks
BlankFile(content) ==
    \E b \in Signatures, p \in Prefixes, t \in Bodies :
        /\ content = b \o p \o t
        /\ \A n \in 1..Len(t) : t[n] \in {" ", NL}
\* the running call has parsed its file, and the file has no row
ParsedNoRow ==
    /\ op \in {"sales", "customers"} /\ pc # "idle"
    /\ \E n \in 1..Len(io) : io[n].op = "read_file" /\ io[n].outcome = "ok"
    /\ IF op = "sales" THEN SalesFileRows(filepath) = <<>>
       ELSE CustomerFileRows(filepath) = <<>>
\* C25: parse_csv_file returns the empty list for a file that is empty or
\* holds only blank lines after the signature and the vendor prefix, and an
\* upload that parsed a file without a row returns success = true, total = 0
\* and no error, having made no upsert and no call of the procedure.
C25_EmptyInputNotError ==
    /\ \A j \in 1..Len(calls) :
           (calls[j].fn = "parse_csv_file" /\ BlankFile(calls[j].args))
               => calls[j].ret = <<>>
    /\ ParsedNoRow =>
           /\ pc = "returned"
           /\ result = [NewResult EXCEPT !.success = TRUE]
           /\ records = <<>>
           /\ \A n \in 1..Len(io) :
                  io[n].op \notin {"upsert_transactions", "upsert_customers",
                                   "rpc"}
C25_Witness ==
    /\ ParsedNoRow /\ op = "sales" /\ filepath = "sales_empty"
    /\ pc = "returned" /\ result.success

\* what upload_sales_csv derives from the four hashed fields of a row: the
\* timestamp, the document, the gross amount and the machine counts
Canonical(row) ==
    <<parse_br_date(row.Data_Hora), normalize_cpf(row.Doc_Cliente),
      parse_br_number(row.Valor_Venda), count_machines(row.Maquinas)>>
\* the four hashed fields as they stand in the file
Raw(row) == <<row.Data_Hora, row.Doc_Cliente, row.Valor_Venda, row.Maquinas>>
\* the row passes the date and document tests and raises no error
Acceptable(row) == ~SkippedByGuard(<<row>>, 1) /\ ~SalesRowMalformed(row)
\* C26 (as claimed): two rows of a sales file with equal derived timestamp,
\* document, gross amount and machines but different raw fields get
\* different import_hash values, are both among the records sent and, the
\* batches written, are two stored transactions.
C26_RawKeyKeepsBoth ==
    \A m, n \in 1..Len(SalesRowsRead) :
        (/\ m < n
         /\ Acceptable(SalesRowsRead[m]) /\ Acceptable(SalesRowsRead[n])
         /\ Canonical(SalesRowsRead[m]) = Canonical(SalesRowsRead[n])
         /\ Raw(SalesRowsRead[m]) # Raw(SalesRowsRead[n]))
            => /\ RowHash(SalesRowsRead[m]) # RowHash(SalesRowsRead[n])
               /\ \E j, k \in 1..Len(records) :
                      /\ j # k
                      /\ records[j].import_hash = RowHash(SalesRowsRead[m])
                      /\ records[k].import_hash = RowHash(SalesRowsRead[n])
               /\ AllBatchesSucceeded =>
                      \E j, k \in 1..Len(transactions_table) :
                          /\ j # k
                          /\ transactions_table[j].import_hash
                                 = RowHash(SalesRowsRead[m])
                          /\ transactions_table[k].import_hash
                                 = RowHash(SalesRowsRead[n])

\* the call of log_upload_history that is taking place
LogCall == calls'[Len(calls')]
\* C27: the record log_upload_history writes has status "success" exactly
\* when the errors of the result are none and "partial" otherwise, its
\* errors are the first 10 of the result's in order (all of 10 or fewer),
\* and the result of the caller is left as it was.
C27_HistoryRecord ==
    [][(calls' # calls /\ LogCall.fn = "log_upload_history") =>
          /\ LogCall.ret.result = LogCall.args
          /\ IF LogCall.ret.ret
             THEN /\ Len(upload_history') = Len(upload_history) + 1
                  /\ \A n \in 1..Len(upload_history) :
                         upload_history'[n] = upload_history[n]
                  /\ \E row \in {upload_history'[Len(upload_history')]} :
                        /\ row.status = "success"
                               <=> Len(LogCall.args.errors) = 0
                        /\ row.status \in {"success", "partial"}
                        /\ Len(row.errors)
                               = (IF Len(LogCall.args.errors) <= 10
                                  THEN Len(LogCall.args.errors) ELSE 10)
                        /\ \A k \in 1..Len(row.errors) :
                               row.errors[k] = LogCall.args.errors[k]
             ELSE upload_history' = upload_history]_vars
\* a result of more than 10 errors was logged
C27_Witness ==
    /\ calls # <<>> /\ calls[Len(calls)].fn = "log_upload_history"
    /\ Len(calls[Len(calls)].args.errors) > 10
    /\ calls[Len(calls)].ret.ret
    /\ Len(upload_history[Len(upload_history)].errors) = 10

\* the digits of a document, in order
DigitsOf(doc) == IF doc = None THEN <<>> ELSE SelectSeq(doc, LAMBDA c : c \in Digits)
\* C28: normalize_cpf returns the empty string for a document without a
\* digit and otherwise 11 digits: the digits of the document after zeros
\* when they are fewer than 11, the last 11 of them when they are more; a
\* call on a returned value returns it.
C28_ElevenDigits ==
    \A j \in 1..Len(calls) :
        calls[j].fn = "normalize_cpf" =>
            /\ IF DigitsOf(calls[j].args) = <<>> THEN calls[j].ret = <<>>
               ELSE /\ Len(calls[j].ret) = 11
                    /\ \A k \in 1..11 :
                           calls[j].ret[k]
                               = IF k <= 11 - Len(DigitsOf(calls[j].args))
                                 THEN "0"
                                 ELSE DigitsOf(calls[j].args)
                                          [Len(DigitsOf(calls[j].args)) - 11 + k]
            /\ j > 1 => (calls[j].args = calls[j - 1].ret
                            /\ calls[j].ret = calls[j].args)
\* a document of more than 11 digits and a character that is no digit was
\* normalized, and the result normalized again
C28_Witness ==
    /\ Len(calls) = 2
    /\ Len(DigitsOf(calls[1].args)) > 11
    /\ Len(calls[1].args) > Len(DigitsOf(calls[1].args))
    /\ calls[2].ret = calls[1].ret

\* what the procedure reports for the batch that starts after record i
Reported == upsert_customer_profiles_batch(customers_table, Slice(records, i))
\* C29 (as claimed): every batch iteration of upload_customers_csv either
\* adds to inserted and updated the counts the procedure reported, or adds
\* the batch size to inserted after a simple upsert, or appends exactly one
\* "Batch k" error; none leaves the counters and the errors as they were.
C29_BatchAccounted ==
    [][(pc = "customers_batch" /\ io' # io) =>
          \/ /\ io'[Len(io')].op = "rpc"
             /\ result'.inserted = result.inserted + Reported.inserted
             /\ result'.updated = result.updated + Reported.updated
             /\ result'.errors = result.errors
             /\ result' # result
          \/ /\ io'[Len(io')].op = "upsert_customers"
             /\ result'.inserted = result.inserted + Len(Slice(records, i))
             /\ result'.updated = result.updated
             /\ result'.errors = result.errors
          \/ /\ result'.errors
                    = Append(result.errors, Err("Batch", i \div BATCH_SIZE))
             /\ result'.inserted = result.inserted
             /\ result'.updated = result.updated]_vars

\* the sum of the sizes of batch entries
RECURSIVE SumSizes(_)
SumSizes(entries) ==
    IF entries = <<>> THEN 0 ELSE Head(entries).n + SumSizes(Tail(entries))
\* row n passes the date and document tests and its amounts are numbers: its
\* hash is looked up among those seen
HashLookedUp(rows, n) ==
    /\ ~SkippedByGuard(rows, n)
    /\ ~parse_br_number(rows[n].Valor_Venda).raised
    /\ ~parse_br_number(rows[n].Valor_Pago).raised
\* row n is dropped for a hash seen at an earlier row of the run
InRunDuplicate(rows, n) ==
    /\ HashLookedUp(rows, n)
    /\ \E m \in 1..(n - 1) :
           HashLookedUp(rows, m) /\ RowHash(rows[m]) = RowHash(rows[n])
\* C30: when upload_sales_csv returns, inserted is the sum of the sizes of
\* the batches whose upsert did not raise, inserted + skipped is at most
\* total, and the records submitted over all batches number total minus
\* skipped minus the in-run duplicates minus the rows with a row error.
C30_SalesAccounting ==
    (op = "sales" /\ pc = "returned") =>
        /\ result.inserted
               = SumSizes(SelectSeq(IoOf("upsert_transactions"),
                                    LAMBDA e : e.outcome = "ok"))
        /\ result.inserted + result.skipped <= result.total
        /\ result.total = Len(SalesRowsRead)
        /\ SumSizes(IoOf("upsert_transactions"))
               = result.total - result.skipped
                 - Cardinality({n \in 1..Len(SalesRowsRead) :
                                  InRunDuplicate(SalesRowsRead, n)})
                 - Len(ErrorsOf("Row"))
\* a call on a file with skipped rows, a repeated row and rows sent returned
C30_Witness ==
    /\ op = "sales" /\ pc = "returned"
    /\ result.inserted > 0 /\ result.skipped > 0
    /\ \E n \in 1..Len(SalesRowsRead) : InRunDuplicate(SalesRowsRead, n)

====
